---- MODULE Spec2Model ----
(***************************************************************************)
(* DocForge backend: the rule checks, the scoring engine and the           *)
(* fix-suggestion stub, as a state machine.  A Document is drawn from a    *)
(* bounded set; each action applies one function of the backend to it and  *)
(* records the arguments and the returned value.                           *)
(*                                                                         *)
(* Representation of Python values:                                        *)
(*   str processed character by character (section titles, keywords,       *)
(*       required names): a sequence of one-character strings;             *)
(*   f-string results (Issue.id, Issue.message): a sequence of pieces, the *)
(*       literal parts as one string each and each formatted value as its  *)
(*       characters; the Python string is the concatenation of the pieces; *)
(*   Optional[T]: <<>> for None and <<v>> for a value v.                   *)
(***************************************************************************)
EXTENDS Integers, Sequences, FiniteSets

\* ------------------------------------------------------------------ bounds
MaxTitled == 2      \* sections of a document of the titled family
MaxHeadings == 4    \* sections of a document of the heading family
MaxLevel == 5       \* largest heading level of the heading family
MaxImages == 2      \* images of a document of the image family
MaxMixed == 4       \* sections, and images, of a document of the mixed family

\* ----------------------------------------------------------- str methods
UpperChars == <<"A", "B", "C", "D", "E", "F", "G", "H", "I", "J", "K", "L", "M",
                "N", "O", "P", "Q", "R", "S", "T", "U", "V", "W", "X", "Y", "Z">>
LowerChars == <<"a", "b", "c", "d", "e", "f", "g", "h", "i", "j", "k", "l", "m",
                "n", "o", "p", "q", "r", "s", "t", "u", "v", "w", "x", "y", "z">>
DigitChars == <<"0", "1", "2", "3", "4", "5", "6", "7", "8", "9">>

IsUpperChar(c) == \E k \in 1..Len(UpperChars) : UpperChars[k] = c
IsLowerChar(c) == \E k \in 1..Len(LowerChars) : LowerChars[k] = c
IsLetter(c) == IsUpperChar(c) \/ IsLowerChar(c)

\* str.lower() and str.upper() of one character
LowerChar(c) ==
    IF IsUpperChar(c)
    THEN LowerChars[CHOOSE k \in 1..Len(UpperChars) : UpperChars[k] = c]
    ELSE c
UpperChar(c) ==
    IF IsLowerChar(c)
    THEN UpperChars[CHOOSE k \in 1..Len(LowerChars) : LowerChars[k] = c]
    ELSE c

\* str.lower(), str.upper(): every character converted
RECURSIVE lower(_)
lower(s) == IF s = <<>> THEN <<>> ELSE <<LowerChar(Head(s))>> \o lower(Tail(s))

RECURSIVE upper(_)
upper(s) == IF s = <<>> THEN <<>> ELSE <<UpperChar(Head(s))>> \o upper(Tail(s))

\* str.title(): a letter that follows no letter is upper-cased, every other
\* character lower-cased
RECURSIVE TitleFrom(_, _)
TitleFrom(s, afterLetter) ==
    IF s = <<>> THEN <<>>
    ELSE <<IF afterLetter THEN LowerChar(Head(s)) ELSE UpperChar(Head(s))>>
         \o TitleFrom(Tail(s), IsLetter(Head(s)))

title(s) == TitleFrom(s, FALSE)

\* `keyword in title` on str: keyword occurs as a contiguous substring
StrIn(keyword, s) ==
    \E off \in 0..(Len(s) - Len(keyword)) :
        SubSeq(s, off + 1, off + Len(keyword)) = keyword

\* str(n) for an int n >= 0, as used by f"{n}"
RECURSIVE IntToStr(_)
IntToStr(n) ==
    IF n < 10 THEN <<DigitChars[n + 1]>>
    ELSE IntToStr(n \div 10) \o <<DigitChars[(n % 10) + 1]>>

\* the second argument, whatever the first
Max_Second(a, b) == b

Max(a, b) == IF a >= b THEN a ELSE b

\* ------------------------------------------------------- Optional values
None == <<>>
Some(v) == <<v>>

\* --------------------------------------------------------------- models
ERROR == "ERROR"
WARN == "WARN"

Issue(id, severity, message, page, penalty) ==
    [id |-> id, severity |-> severity, message |-> message,
     page |-> page, penalty |-> penalty]

Section(t, level, page) == [title |-> t, level |-> level, page |-> page]

Image(caption, page, alt_text) ==
    [caption |-> caption, page |-> page, alt_text |-> alt_text]

\* Section.content and Document.metadata are read by no rule check, by the
\* scoring engine or by the fix-suggestion stub; they are left out
Document(sections, images) == [sections |-> sections, images |-> images]

\* mutant: titles returned as written, not lower-cased
RECURSIVE RawTitles(_)
RawTitles(sections) ==
    IF sections = <<>> THEN <<>>
    ELSE <<Head(sections).title>> \o RawTitles(Tail(sections))

get_section_titles_CaseSensitive(document) == RawTitles(document.sections)

\* [s.title.lower() for s in self.sections]
RECURSIVE LowerTitles(_)
LowerTitles(sections) ==
    IF sections = <<>> THEN <<>>
    ELSE <<lower(Head(sections).title)>> \o LowerTitles(Tail(sections))

get_section_titles(document) == LowerTitles(document.sections)

RECURSIVE FilterHeadingLevels(_)
FilterHeadingLevels(sections) ==
    IF sections = <<>> THEN <<>>
    ELSE (IF Head(sections).level > 0 THEN <<Head(sections).level>> ELSE <<>>)
         \o FilterHeadingLevels(Tail(sections))

get_heading_levels(document) == FilterHeadingLevels(document.sections)

\* ---------------------------------------------------- required sections
\* mutant: "quick start" accepted as an installation keyword
REQUIRED_SECTIONS_QuickStart == <<
    [name |-> <<"i", "n", "t", "r", "o", "d", "u", "c", "t", "i", "o", "n">>,
     keywords |-> <<
        <<"i", "n", "t", "r", "o", "d", "u", "c", "t", "i", "o", "n">>,
        <<"i", "n", "t", "r", "o">>,
        <<"o", "v", "e", "r", "v", "i", "e", "w">>,
        <<"g", "e", "t", "t", "i", "n", "g", " ", "s", "t", "a", "r", "t", "e", "d">> >>],
    [name |-> <<"i", "n", "s", "t", "a", "l", "l", "a", "t", "i", "o", "n">>,
     keywords |-> <<
        <<"i", "n", "s", "t", "a", "l", "l", "a", "t", "i", "o", "n">>,
        <<"i", "n", "s", "t", "a", "l", "l">>,
        <<"s", "e", "t", "u", "p">>,
        <<"g", "e", "t", "t", "i", "n", "g", " ", "s", "t", "a", "r", "t", "e", "d">>,
        <<"q", "u", "i", "c", "k", " ", "s", "t", "a", "r", "t">> >>],
    [name |-> <<"s", "a", "f", "e", "t", "y">>,
     keywords |-> <<
        <<"s", "a", "f", "e", "t", "y">>,
        <<"w", "a", "r", "n", "i", "n", "g">>,
        <<"c", "a", "u", "t", "i", "o", "n">>,
        <<"i", "m", "p", "o", "r", "t", "a", "n", "t">> >>],
    [name |-> <<"t", "r", "o", "u", "b", "l", "e", "s", "h", "o", "o", "t", "i", "n", "g">>,
     keywords |-> <<
        <<"t", "r", "o", "u", "b", "l", "e", "s", "h", "o", "o", "t", "i", "n", "g">>,
        <<"t", "r", "o", "u", "b", "l", "e", "s", "h", "o", "o", "t">>,
        <<"f", "a", "q">>,
        <<"p", "r", "o", "b", "l", "e", "m", "s">>,
        <<"i", "s", "s", "u", "e", "s">> >>] >>

\* REQUIRED_SECTIONS.items(): the canonical names in insertion order, each
\* with its keyword list
REQUIRED_SECTIONS == <<
    [name |-> <<"i", "n", "t", "r", "o", "d", "u", "c", "t", "i", "o", "n">>,
     keywords |-> <<
        <<"i", "n", "t", "r", "o", "d", "u", "c", "t", "i", "o", "n">>,
        <<"i", "n", "t", "r", "o">>,
        <<"o", "v", "e", "r", "v", "i", "e", "w">>,
        <<"g", "e", "t", "t", "i", "n", "g", " ", "s", "t", "a", "r", "t", "e", "d">> >>],
    [name |-> <<"i", "n", "s", "t", "a", "l", "l", "a", "t", "i", "o", "n">>,
     keywords |-> <<
        <<"i", "n", "s", "t", "a", "l", "l", "a", "t", "i", "o", "n">>,
        <<"i", "n", "s", "t", "a", "l", "l">>,
        <<"s", "e", "t", "u", "p">>,
        <<"g", "e", "t", "t", "i", "n", "g", " ", "s", "t", "a", "r", "t", "e", "d">> >>],
    [name |-> <<"s", "a", "f", "e", "t", "y">>,
     keywords |-> <<
        <<"s", "a", "f", "e", "t", "y">>,
        <<"w", "a", "r", "n", "i", "n", "g">>,
        <<"c", "a", "u", "t", "i", "o", "n">>,
        <<"i", "m", "p", "o", "r", "t", "a", "n", "t">> >>],
    [name |-> <<"t", "r", "o", "u", "b", "l", "e", "s", "h", "o", "o", "t", "i", "n", "g">>,
     keywords |-> <<
        <<"t", "r", "o", "u", "b", "l", "e", "s", "h", "o", "o", "t", "i", "n", "g">>,
        <<"t", "r", "o", "u", "b", "l", "e", "s", "h", "o", "o", "t">>,
        <<"f", "a", "q">>,
        <<"p", "r", "o", "b", "l", "e", "m", "s">>,
        <<"i", "s", "s", "u", "e", "s">> >>] >>

\* the inner loop over section_titles: found becomes True at the first title
\* that contains any of the keywords
SectionFound(section_titles, keywords) ==
    \E t \in 1..Len(section_titles) :
        \E k \in 1..Len(keywords) : StrIn(keywords[k], section_titles[t])

RECURSIVE RequiredLoop(_, _)
RequiredLoop(section_titles, r) ==
    IF r > Len(REQUIRED_SECTIONS) THEN <<>>
    ELSE (IF ~SectionFound(section_titles, REQUIRED_SECTIONS[r].keywords)
          THEN <<Issue(<<"MISSING_SECTION_">> \o upper(REQUIRED_SECTIONS[r].name),
                       ERROR,
                       <<"Missing required section: ">>
                           \o title(REQUIRED_SECTIONS[r].name),
                       None,
                       15)>>
          ELSE <<>>)
         \o RequiredLoop(section_titles, r + 1)

check_required_sections(document) ==
    RequiredLoop(get_section_titles(document), 1)

\* ----------------------------------------------------------- image rules
\* Python truthiness of an Optional[str] and of an Optional[int]
TruthyStr(opt) == opt # None /\ opt[1] # ""
TruthyInt(opt) == opt # None /\ opt[1] # 0

\* f"{image.page or 'unknown'}"
PageOrUnknown(page) == IF TruthyInt(page) THEN IntToStr(page[1]) ELSE <<"unknown">>

\* the loop over enumerate(document.images); idx is Python's 0-based index
RECURSIVE ImageLoop(_, _)
ImageLoop(images, idx) ==
    IF idx >= Len(images) THEN <<>>
    ELSE (IF ~TruthyStr(images[idx + 1].caption) /\ ~TruthyStr(images[idx + 1].alt_text)
          THEN <<Issue(<<"MISSING_IMAGE_CAPTION_">> \o IntToStr(idx),
                       WARN,
                       <<"Image on page ">> \o PageOrUnknown(images[idx + 1].page)
                           \o <<" missing caption or alt text">>,
                       images[idx + 1].page,
                       5)>>
          ELSE <<>>)
         \o ImageLoop(images, idx + 1)

\* mutant: an image is reported when it lacks a caption or an alt text
RECURSIVE ImageLoopEither(_, _)
ImageLoopEither(images, idx) ==
    IF idx >= Len(images) THEN <<>>
    ELSE (IF ~TruthyStr(images[idx + 1].caption) \/ ~TruthyStr(images[idx + 1].alt_text)
          THEN <<Issue(<<"MISSING_IMAGE_CAPTION_">> \o IntToStr(idx),
                       WARN,
                       <<"Image on page ">> \o PageOrUnknown(images[idx + 1].page)
                           \o <<" missing caption or alt text">>,
                       images[idx + 1].page,
                       5)>>
          ELSE <<>>)
         \o ImageLoopEither(images, idx + 1)

check_image_captions_Either(document) == ImageLoopEither(document.images, 0)

\* the image check naming every finding by the page, not by the index
check_image_captions_IdByPage(document) ==
    LET found == ImageLoop(document.images, 0)
    IN  [k \in 1..Len(found) |->
            [found[k] EXCEPT !.id = <<"MISSING_IMAGE_CAPTION_">> \o
                                       (IF found[k].page = None THEN <<"unknown">>
                                        ELSE IntToStr(found[k].page[1]))]]

check_image_captions(document) == ImageLoop(document.images, 0)

\* --------------------------------------------------------- heading rules
\* document.sections[idx].page if idx < len(document.sections) else None
\* the page of the section that holds heading number idx
SectionPageAt_OfHeading(document, idx) ==
    LET HasLevel(section) == section.level > 0
        headings == SelectSeq(document.sections, HasLevel)
    IN  IF idx < Len(headings) THEN headings[idx + 1].page ELSE None

SectionPageAt(document, idx) ==
    IF idx < Len(document.sections) THEN document.sections[idx + 1].page ELSE None

\* the loop over enumerate(heading_levels[1:], start=1); idx is the 0-based
\* position in heading_levels, prev_level the level seen just before it
RECURSIVE SequenceLoop(_, _, _, _)
SequenceLoop(document, heading_levels, idx, prev_level) ==
    IF idx >= Len(heading_levels) THEN <<>>
    ELSE (IF heading_levels[idx + 1] > prev_level + 1
          THEN <<Issue(<<"BROKEN_HEADING_SEQUENCE_">> \o IntToStr(idx),
                       WARN,
                       <<"Heading level jumps from H">> \o IntToStr(prev_level)
                           \o <<" to H">> \o IntToStr(heading_levels[idx + 1])
                           \o <<" (skipped levels)">>,
                       SectionPageAt(document, idx),
                       10)>>
          ELSE <<>>)
         \o SequenceLoop(document, heading_levels, idx + 1, heading_levels[idx + 1])

\* mutants of the heading-sequence loop:
\*   "keep_prev"  prev_level is not advanced past a reported jump
\*   "max_prev"   prev_level is the deepest level seen so far
\*   "slice_idx"  idx counts from 0 in heading_levels[1:] (start=1 dropped)
RECURSIVE SequenceLoopMutant(_, _, _, _, _)
SequenceLoopMutant(document, heading_levels, idx, prev_level, kind) ==
    IF idx >= Len(heading_levels) THEN <<>>
    ELSE LET level == heading_levels[idx + 1]
             skip == level > prev_level + 1
             shown == IF kind = "slice_idx" THEN idx - 1 ELSE idx
             next_prev == IF kind = "keep_prev" /\ skip THEN prev_level
                          ELSE IF kind = "max_prev" THEN Max(prev_level, level)
                          ELSE level
         IN  (IF skip
              THEN <<Issue(<<"BROKEN_HEADING_SEQUENCE_">> \o IntToStr(shown),
                           WARN,
                           <<"Heading level jumps from H">> \o IntToStr(prev_level)
                               \o <<" to H">> \o IntToStr(level)
                               \o <<" (skipped levels)">>,
                           SectionPageAt(document, shown),
                           10)>>
              ELSE <<>>)
             \o SequenceLoopMutant(document, heading_levels, idx + 1, next_prev, kind)

check_heading_sequence_Variant(document, kind) ==
    IF get_heading_levels(document) = <<>> THEN <<>>
    ELSE SequenceLoopMutant(document, get_heading_levels(document), 1,
                            get_heading_levels(document)[1], kind)

check_heading_sequence_KeepPrev(document) ==
    check_heading_sequence_Variant(document, "keep_prev")
check_heading_sequence_MaxPrev(document) ==
    check_heading_sequence_Variant(document, "max_prev")
check_heading_sequence_SliceIdx(document) ==
    check_heading_sequence_Variant(document, "slice_idx")

check_heading_sequence(document) ==
    IF get_heading_levels(document) = <<>> THEN <<>>
    ELSE SequenceLoop(document, get_heading_levels(document), 1,
                      get_heading_levels(document)[1])

\* the loop over enumerate(heading_levels)
RECURSIVE DepthLoop(_, _, _)
DepthLoop(document, heading_levels, idx) ==
    IF idx >= Len(heading_levels) THEN <<>>
    ELSE (IF heading_levels[idx + 1] > 4
          THEN <<Issue(<<"EXCESSIVE_HEADING_DEPTH_">> \o IntToStr(idx),
                       WARN,
                       <<"Heading H">> \o IntToStr(heading_levels[idx + 1])
                           \o <<" is too deep (recommend max H4)">>,
                       SectionPageAt(document, idx),
                       5)>>
          ELSE <<>>)
         \o DepthLoop(document, heading_levels, idx + 1)

\* mutant: level 4 is already too deep
RECURSIVE DepthLoopFrom4(_, _, _)
DepthLoopFrom4(document, heading_levels, idx) ==
    IF idx >= Len(heading_levels) THEN <<>>
    ELSE (IF heading_levels[idx + 1] >= 4
          THEN <<Issue(<<"EXCESSIVE_HEADING_DEPTH_">> \o IntToStr(idx),
                       WARN,
                       <<"Heading H">> \o IntToStr(heading_levels[idx + 1])
                           \o <<" is too deep (recommend max H4)">>,
                       SectionPageAt(document, idx),
                       5)>>
          ELSE <<>>)
         \o DepthLoopFrom4(document, heading_levels, idx + 1)

check_excessive_depth_From4(document) ==
    DepthLoopFrom4(document, get_heading_levels(document), 0)

\* the depth check reporting its findings as errors
check_excessive_depth_AsError(document) ==
    LET found == DepthLoop(document, get_heading_levels(document), 0)
    IN  [k \in 1..Len(found) |-> [found[k] EXCEPT !.severity = ERROR]]

check_excessive_depth(document) ==
    DepthLoop(document, get_heading_levels(document), 0)

\* --------------------------------------------------------------- scoring
\* score = 100; for issue in issues: score -= issue.penalty
RECURSIVE SubtractPenalties(_, _)
SubtractPenalties(score, issues) ==
    IF issues = <<>> THEN score
    ELSE SubtractPenalties(score - Head(issues).penalty, Tail(issues))

\* the document with every section title lowered in place
DocumentAfter_TitlesLowered(document) ==
    [document EXCEPT !.sections =
        [i \in 1..Len(document.sections) |->
            [document.sections[i] EXCEPT !.title = lower(document.sections[i].title)]]]

\* the document as the four rule checks leave it: they read its sections
\* and images, build new lists, and assign to none of its fields
DocumentAfter(document) == document

RunRuleChecks(document) ==
    check_required_sections(document)
        \o check_image_captions(document)
        \o check_heading_sequence(document)
        \o check_excessive_depth(document)

\* mutant: the final max(0, score) is missing
analyze_document_NoClamp(document) ==
    LET issues == RunRuleChecks(document)
    IN  [score |-> SubtractPenalties(100, issues), issues |-> issues]

\* mutant: the heading rules run before the image rule
analyze_document_HeadingsFirst(document) ==
    LET issues == check_required_sections(document)
                      \o check_heading_sequence(document)
                      \o check_excessive_depth(document)
                      \o check_image_captions(document)
    IN  [score |-> Max(0, SubtractPenalties(100, issues)), issues |-> issues]

analyze_document(document) ==
    LET issues == RunRuleChecks(document)
    IN  [score |-> Max(0, SubtractPenalties(100, issues)), issues |-> issues]

\* ------------------------------------------------------- fix suggestions
FixSuggestion(issue_id, original, suggested, confidence) ==
    [issue_id |-> issue_id, original |-> original, suggested |-> suggested,
     confidence |-> confidence]

\* mutant: the flag is not tested and every issue gets a suggestion
generate_fixes_IgnoreFlag(document, issues, enabled) ==
    [i \in 1..Len(issues) |-> FixSuggestion(issues[i].id, "", "", 0)]

\* the body after the flag test is a TODO: no suggestion is ever appended
generate_fixes(document, issues, enabled) ==
    IF ~enabled THEN <<>> ELSE <<>>

\* mutant: the document is required before the flag is looked at
suggest_fixes_endpoint_DocumentFirst(request, enabled) ==
    IF request.document = None
    THEN [status_code |-> 400,
          detail |-> "Document context required for AI suggestions"]
    ELSE IF ~enabled
    THEN [suggestions |-> <<>>,
          message |-> "AI fixes are disabled. Set enabled=true to activate."]
    ELSE [suggestions |-> <<>>]

\* request.document is Optional[Document]; a raised HTTPException is the
\* record with its status_code and detail
suggest_fixes_endpoint(request, enabled) ==
    IF ~enabled
    THEN [suggestions |-> <<>>,
          message |-> "AI fixes are disabled. Set enabled=true to activate."]
    ELSE IF request.document = None
    THEN [status_code |-> 400,
          detail |-> "Document context required for AI suggestions"]
    ELSE [suggestions |-> generate_fixes(request.document[1], request.issues, TRUE)]

\* -------------------------------------------------------------- parsers
\* more str methods, as the parsers use them
IsSpace(c) == c \in {" ", "\t", "\n"}
IsDigit(c) == \E k \in 1..Len(DigitChars) : DigitChars[k] = c

\* str.lstrip(), str.rstrip(), str.strip() without arguments
RECURSIVE lstrip(_)
lstrip(s) ==
    IF s # <<>> /\ IsSpace(Head(s)) THEN lstrip(Tail(s)) ELSE s

RECURSIVE rstrip(_)
rstrip(s) ==
    IF s # <<>> /\ IsSpace(s[Len(s)]) THEN rstrip(SubSeq(s, 1, Len(s) - 1)) ELSE s

strip(s) == rstrip(lstrip(s))

\* len(s.split()): the number of maximal runs of non-whitespace
\* characters, counted at the character each run starts with

\* len(s.split(' ')): one more than the number of blanks
SplitLen_OnBlank(s) == Cardinality({k \in 1..Len(s) : s[k] = " "}) + 1

SplitLen(s) ==
    Cardinality({k \in 1..Len(s) : ~IsSpace(s[k]) /\ (k = 1 \/ IsSpace(s[k - 1]))})

\* '\n'.join(parts)
RECURSIVE JoinLines(_)
JoinLines(parts) ==
    IF parts = <<>> THEN <<>>
    ELSE IF Len(parts) = 1 THEN parts[1]
    ELSE parts[1] \o <<"\n">> \o JoinLines(Tail(parts))

\* s.startswith(prefix), s.endswith(suffix)
StartsWith(s, prefix) ==
    Len(s) >= Len(prefix) /\ SubSeq(s, 1, Len(prefix)) = prefix
EndsWith(s, suffix) ==
    Len(s) >= Len(suffix) /\ SubSeq(s, Len(s) - Len(suffix) + 1, Len(s)) = suffix

\* int(digits) for a non-empty run of decimal digits
RECURSIVE DigitsToInt(_)
DigitsToInt(cs) ==
    IF cs = <<>> THEN 0
    ELSE 10 * DigitsToInt(SubSeq(cs, 1, Len(cs) - 1))
         + ((CHOOSE k \in 1..Len(DigitChars) : DigitChars[k] = cs[Len(cs)]) - 1)

\* the longest run of digits at the start of s: what (\d+) takes
RECURSIVE LeadingDigits(_)
LeadingDigits(s) ==
    IF s # <<>> /\ IsDigit(Head(s)) THEN <<Head(s)>> \o LeadingDigits(Tail(s)) ELSE <<>>

\* objects of the model: Section with its content, DocumentMetadata, and the
\* Document a parser returns
SectionWithContent(t, level, content, page) ==
    [title |-> t, level |-> level, content |-> content, page |-> page]

DocumentMetadata(page_count, word_count, file_type, file_name) ==
    [page_count |-> page_count, word_count |-> word_count,
     file_type |-> file_type, file_name |-> file_name]

ParsedDocument(sections, images, metadata) ==
    [sections |-> sections, images |-> images, metadata |-> metadata]

\* a call either returns a value or raises an exception
Returned(v) == [raised |-> FALSE, value |-> v]
Raised(exc) == [raised |-> TRUE, exc |-> exc]

\* --------------------------------------------------------- DOCX parser
HeadingWord == <<"H", "e", "a", "d", "i", "n", "g">>

\* re.search(r'Heading (\d+)', name): the digits of the leftmost place where
\* "Heading " is followed by a digit, None when there is no such place
HeadingMatch(name) ==
    LET pat == HeadingWord \o <<" ">>
        hits == {off \in 0..(Len(name) - Len(pat) - 1) :
                    /\ SubSeq(name, off + 1, off + Len(pat)) = pat
                    /\ IsDigit(name[off + Len(pat) + 1])}
    IN  IF hits = {} THEN None
        ELSE LET off == CHOOSE h \in hits : \A g \in hits : h <= g
             IN  Some(LeadingDigits(SubSeq(name, off + Len(pat) + 1, Len(name))))

\* every heading at level 1
HeadingLevel_AlwaysOne(name) == 1

\* level = int(heading_match.group(1)) if heading_match else 1
HeadingLevel(name) ==
    IF HeadingMatch(name) # None THEN DigitsToInt(HeadingMatch(name)[1]) ELSE 1

\* the accumulator of the paragraph loop: sections emitted so far, the open
\* section (title None when there is none) and the running word count
DocxStart ==
    [sections |-> <<>>, title |-> None, level |-> 0, content |-> <<>>,
     word_count |-> 0]

\* one iteration of `for paragraph in doc.paragraphs`, current_page being 1
DocxStep(st, paragraph) ==
    LET text == strip(paragraph.text)
    IN  IF text = <<>> THEN st
        ELSE IF StartsWith(paragraph.style, HeadingWord)
        THEN [sections |->
                  IF st.title # None
                  THEN Append(st.sections,
                              SectionWithContent(st.title[1], st.level,
                                                 JoinLines(st.content), Some(1)))
                  ELSE st.sections,
              title |-> Some(text),
              level |-> HeadingLevel(paragraph.style),
              content |-> <<>>,
              word_count |-> st.word_count + SplitLen(text)]
        ELSE [sections |-> st.sections,
              title |-> IF st.title = None
                        THEN Some(<<"I", "n", "t", "r", "o", "d", "u", "c", "t", "i", "o", "n">>)
                        ELSE st.title,
              level |-> IF st.title = None THEN 1 ELSE st.level,
              content |-> Append(st.content, text),
              word_count |-> st.word_count + SplitLen(text)]

RECURSIVE DocxLoop(_, _)
DocxLoop(st, paragraphs) ==
    IF paragraphs = <<>> THEN st
    ELSE DocxLoop(DocxStep(st, Head(paragraphs)), Tail(paragraphs))

\* the paragraph loop's sections alone, the open one dropped
DocxSections_NoFlush(st) == st.sections

\* the section still open after the last paragraph is saved too
DocxSections(st) ==
    IF st.title # None
    THEN Append(st.sections,
                SectionWithContent(st.title[1], st.level, JoinLines(st.content), Some(1)))
    ELSE st.sections

\* one Image per relationship whose target_ref contains "image"
RECURSIVE DocxImages(_)
DocxImages(rels) ==
    IF rels = <<>> THEN <<>>
    ELSE (IF StrIn(<<"i", "m", "a", "g", "e">>, Head(rels))
          THEN <<Image(None, Some(1), None)>> ELSE <<>>)
         \o DocxImages(Tail(rels))

\* parse_docx(file_path, file_name) on the file stored at file_path; a file
\* that is not a DOCX package makes DocxDocument(file_path) raise
parse_docx(file, file_name) ==
    IF file.format # "docx" THEN Raised([type |-> "PackageNotFoundError"])
    ELSE LET st == DocxLoop(DocxStart, file.paragraphs)
         IN  Returned(ParsedDocument(
                 DocxSections(st),
                 DocxImages(file.rels),
                 DocumentMetadata(Max(1, st.word_count \div 500), st.word_count,
                                  "docx", file_name)))

\* ---------------------------------------------------------- PDF parser
\* text.split('\n'): the pieces between line feeds, empty pieces included
SplitLines(s) ==
    LET feeds == {k \in 1..Len(s) : s[k] = "\n"}
        FeedAt(i) == IF i = 0 THEN 0
                     ELSE IF i > Cardinality(feeds) THEN Len(s) + 1
                     ELSE CHOOSE k \in feeds : Cardinality({j \in feeds : j <= k}) = i
    IN  [i \in 1..(Cardinality(feeds) + 1) |-> SubSeq(s, FeedAt(i - 1) + 1, FeedAt(i) - 1)]

\* str.isupper(): some cased character, and no lowercase one
isupper(s) ==
    /\ \E k \in 1..Len(s) : IsUpperChar(s[k])
    /\ \A k \in 1..Len(s) : ~IsLowerChar(s[k])

\* line[-3:]
LastThree(s) == SubSeq(s, Max(1, Len(s) - 2), Len(s))

\* the heuristic without its test of the last three characters
is_heading_DigitsAllowed(line) ==
    /\ Len(line) < 100
    /\ \/ isupper(line)
       \/ IsUpperChar(line[1]) /\ ~EndsWith(line, <<".">>)

\* the heuristic of lines 56-61, for a non-empty stripped line
is_heading(line) ==
    /\ Len(line) < 100
    /\ \/ isupper(line)
       \/ /\ IsUpperChar(line[1])
          /\ ~EndsWith(line, <<".">>)
          /\ ~\E k \in 1..Len(LastThree(line)) : IsDigit(LastThree(line)[k])

\* the level given to a line taken as a heading, lines 75-80
PdfHeadingLevel(line) ==
    IF isupper(line) /\ Len(line) < 50 THEN 1
    ELSE IF IsUpperChar(line[1]) /\ ~EndsWith(line, <<".">>) THEN 2
    ELSE 3

\* one iteration of `for line in lines` on page page_num; st carries the
\* document-wide sections and word count and the page's open section
PdfLineStep(st, rawLine, page_num) ==
    LET line == strip(rawLine)
    IN  IF line = <<>> THEN st
        ELSE IF is_heading(line) /\ Len(line) < 80
        THEN [sections |->
                  IF st.title # None
                  THEN Append(st.sections,
                              SectionWithContent(st.title[1], st.level,
                                                 JoinLines(st.content), Some(page_num)))
                  ELSE st.sections,
              title |-> Some(line),
              level |-> PdfHeadingLevel(line),
              content |-> <<>>,
              word_count |-> st.word_count + SplitLen(line)]
        ELSE [sections |-> st.sections,
              title |-> IF st.title = None
                        THEN Some(<<"I", "n", "t", "r", "o", "d", "u", "c", "t", "i", "o", "n">>)
                        ELSE st.title,
              level |-> IF st.title = None THEN 1 ELSE st.level,
              content |-> Append(st.content, line),
              word_count |-> st.word_count + SplitLen(line)]

RECURSIVE PdfLineLoop(_, _, _)
PdfLineLoop(st, lines, page_num) ==
    IF lines = <<>> THEN st
    ELSE PdfLineLoop(PdfLineStep(st, Head(lines), page_num), Tail(lines), page_num)

\* one Image for a page that has image objects, however many
PdfPageImages_OnePerPage(n, page_num) ==
    IF n = 0 THEN <<>> ELSE <<Image(None, Some(page_num), None)>>

\* page.images gives one Image on page_num per image object of the page
RECURSIVE PdfPageImages(_, _)
PdfPageImages(n, page_num) ==
    IF n = 0 THEN <<>>
    ELSE <<Image(None, Some(page_num), None)>> \o PdfPageImages(n - 1, page_num)

\* one iteration of `for page_num, page in enumerate(pdf.pages, start=1)`:
\* a page without text is skipped whole; otherwise its images are recorded,
\* the open section starts again at None and the last one is saved at the end
PdfPageStep(acc, page, page_num) ==
    IF page.text = None \/ page.text = Some(<<>>) THEN acc
    ELSE LET st == PdfLineLoop([sections |-> acc.sections, title |-> None,
                                level |-> 0, content |-> <<>>,
                                word_count |-> acc.word_count],
                               SplitLines(page.text[1]), page_num)
         IN  [sections |->
                  IF st.title # None
                  THEN Append(st.sections,
                              SectionWithContent(st.title[1], st.level,
                                                 JoinLines(st.content), Some(page_num)))
                  ELSE st.sections,
              images |-> acc.images \o PdfPageImages(page.images, page_num),
              word_count |-> st.word_count]

\* the page loop numbering the pages from 0
RECURSIVE PdfPageLoop_FromZero(_, _, _)
PdfPageLoop_FromZero(acc, pages, page_num) ==
    IF page_num > Len(pages) THEN acc
    ELSE PdfPageLoop_FromZero(PdfPageStep(acc, pages[page_num], page_num - 1),
                              pages, page_num + 1)

RECURSIVE PdfPageLoop(_, _, _)
PdfPageLoop(acc, pages, page_num) ==
    IF page_num > Len(pages) THEN acc
    ELSE PdfPageLoop(PdfPageStep(acc, pages[page_num], page_num), pages, page_num + 1)

\* parse_pdf(file_path, file_name) on the file stored at file_path; a file
\* that is not a PDF makes pdfplumber.open(file_path) raise
parse_pdf(file, file_name) ==
    IF file.format # "pdf" THEN Raised([type |-> "PDFSyntaxError"])
    ELSE LET acc == PdfPageLoop([sections |-> <<>>, images |-> <<>>, word_count |-> 0],
                                file.pages, 1)
         IN  Returned(ParsedDocument(
                 acc.sections,
                 acc.images,
                 DocumentMetadata(Len(file.pages), acc.word_count, "pdf", file_name)))

\* ------------------------------------------------------ analyze endpoint
\* os.path.splitext(p): the extension starts at the last dot of the base
\* name, unless only dots come before it there
LastIndexOf(s, c) ==
    LET hits == {k \in 1..Len(s) : s[k] = c}
    IN  IF hits = {} THEN 0 ELSE CHOOSE k \in hits : \A j \in hits : j <= k

splitext(path) ==
    LET sepIndex == LastIndexOf(path, "/")
        dotIndex == LastIndexOf(path, ".")
    IN  IF /\ dotIndex > sepIndex
           /\ \E k \in (sepIndex + 1)..(dotIndex - 1) : path[k] # "."
        THEN <<SubSeq(path, 1, dotIndex - 1), SubSeq(path, dotIndex, Len(path))>>
        ELSE <<path, <<>>>>

ExtDocx == <<".", "d", "o", "c", "x">>
ExtDoc == <<".", "d", "o", "c">>
ExtPdf == <<".", "p", "d", "f">>
ExtMd == <<".", "m", "d">>

\* the allowed set letting plain text through as well
allowed_extensions_WithTxt == {ExtDocx, ExtPdf, ExtDoc, ExtMd, <<".", "t", "x", "t">>}

allowed_extensions == {ExtDocx, ExtPdf, ExtDoc, ExtMd}

\* file_ext = os.path.splitext(file.filename)[1].lower()
FileExt(filename) == lower(splitext(filename)[2])

\* HTTPException(status_code, detail), the exception and the response it
\* becomes; an exception nobody handles becomes a bare 500 response
HTTPException(status_code, detail) ==
    [type |-> "HTTPException", status_code |-> status_code, detail |-> detail]

\* str(e): an HTTPException reads "<status_code>: <detail>"; the message of
\* a parser's exception is the library's, and stands here as its type
StrOfException(exc) ==
    IF exc.type = "HTTPException"
    THEN IntToStr(exc.status_code) \o <<": ">> \o exc.detail
    ELSE <<exc.type>>

ErrorResponse(exc) == [status_code |-> exc.status_code, detail |-> exc.detail]

InternalServerError == [status_code |-> 500, detail |-> <<"Internal Server Error">>]

LintSummary(errors, warnings) == [errors |-> errors, warnings |-> warnings]

LintReport(score, summary, issues) ==
    [score |-> score, summary |-> summary, issues |-> issues]

\* sum(1 for issue in issues if issue.severity.value == value)
CountSeverity(issues, value) ==
    Cardinality({k \in 1..Len(issues) : issues[k].severity = value})

\* the parser the extension selects; the branch left for ".md" raises 501
ParseUpload(file_ext, file, filename) ==
    IF file_ext = ExtDocx \/ file_ext = ExtDoc
    THEN [calls |-> <<"parse_docx">>, result |-> parse_docx(file, filename)]
    ELSE IF file_ext = ExtPdf
    THEN [calls |-> <<"parse_pdf">>, result |-> parse_pdf(file, filename)]
    ELSE [calls |-> <<>>,
          result |-> Raised(HTTPException(501, <<"Markdown parsing not yet implemented">>))]

\* the endpoint running the rule checks even when the parser raised
ProcessUpload_AnalyzeAnyway(file_ext, file, filename) ==
    LET parsed == ParseUpload(file_ext, file, filename)
    IN  IF parsed.result.raised
        THEN [calls |-> Append(parsed.calls, "analyze_document"),
              response |->
                  [status_code |-> 200,
                   body |-> LintReport(100, LintSummary(0, 0), <<>>)]]
        ELSE LET analysis == analyze_document(parsed.result.value)
             IN  [calls |-> Append(parsed.calls, "analyze_document"),
                  response |->
                      [status_code |-> 200,
                       body |-> LintReport(analysis.score,
                                   LintSummary(CountSeverity(analysis.issues, ERROR),
                                               CountSeverity(analysis.issues, WARN)),
                                   analysis.issues)]]

\* the endpoint tallying every issue as an error
ProcessUpload_AllErrors(file_ext, file, filename) ==
    LET parsed == ParseUpload(file_ext, file, filename)
    IN  IF parsed.result.raised
        THEN [calls |-> parsed.calls,
              response |-> ErrorResponse(HTTPException(500,
                               <<"Error processing document: ">> \o StrOfException(parsed.result.exc)))]
        ELSE LET analysis == analyze_document(parsed.result.value)
             IN  [calls |-> Append(parsed.calls, "analyze_document"),
                  response |->
                      [status_code |-> 200,
                       body |-> LintReport(analysis.score,
                                   LintSummary(Len(analysis.issues),
                                               CountSeverity(analysis.issues, WARN)),
                                   analysis.issues)]]

\* the try block of the endpoint on the temporary file: parse, run the rule
\* checks, tally and report; `except Exception` turns anything raised there,
\* the 501 included (HTTPException is an Exception), into a 500
ProcessUpload(file_ext, file, filename) ==
    LET parsed == ParseUpload(file_ext, file, filename)
    IN  IF parsed.result.raised
        THEN [calls |-> parsed.calls,
              response |-> ErrorResponse(HTTPException(500,
                               <<"Error processing document: ">> \o StrOfException(parsed.result.exc)))]
        ELSE LET analysis == analyze_document(parsed.result.value)
             IN  [calls |-> Append(parsed.calls, "analyze_document"),
                  response |->
                      [status_code |-> 200,
                       body |-> LintReport(analysis.score,
                                   LintSummary(CountSeverity(analysis.issues, ERROR),
                                               CountSeverity(analysis.issues, WARN)),
                                   analysis.issues)]]

\* the 400 that refuses an extension outside allowed_extensions; the detail
\* goes on to list the allowed extensions in the set's iteration order
UnsupportedFileType ==
    ErrorResponse(HTTPException(400, <<"Unsupported file type. Allowed: ">>))

\* ------------------------------------------------------- input documents
SeqsUpTo(S, n) == UNION {[1..k -> S] : k \in 0..n}

Titles == {
    <<"Q", "u", "i", "c", "k", " ", "S", "t", "a", "r", "t", " ", "G", "u", "i", "d", "e">>,
    <<"G", "e", "t", "t", "i", "n", "g", " ", "S", "t", "a", "r", "t", "e", "d">>,
    <<"I", "N", "T", "R", "O", "D", "U", "C", "T", "I", "O", "N">>,
    <<"P", "r", "o", "d", "u", "c", "t", " ", "O", "v", "e", "r", "v", "i", "e", "w">>,
    <<"R", "e", "i", "n", "s", "t", "a", "l", "l">>,
    <<"S", "e", "t", "u", "p">>,
    <<"S", "a", "f", "e", "t", "y", " ", "W", "a", "r", "n", "i", "n", "g", "s">>,
    <<"F", "A", "Q">>,
    <<"K", "n", "o", "w", "n", " ", "I", "s", "s", "u", "e", "s">>,
    <<"A", "p", "p", "e", "n", "d", "i", "x">>,
    <<"I", "m", "p", "o", "r", "t", "a", "n", "t", " ", "C", "a", "u", "t", "i", "o", "n", "s">>,
    <<"S", "a", "f", "e", "t", "y", " ", "a", "n", "d", " ", "T", "r", "o", "u", "b", "l", "e", "s", "h", "o", "o", "t", "i", "n", "g">> }

PlainTitle == <<"A">>

\* documents that differ in their section titles only
TitledDocs ==
    {Document([i \in 1..Len(ts) |-> Section(ts[i], 1, Some(1))], <<>>) :
        ts \in SeqsUpTo(Titles, MaxTitled)}

\* documents that differ in their section levels only (level 0: not a
\* heading); section i is on page i
Levels == 0..MaxLevel
HeadingDocs ==
    {Document([i \in 1..Len(ls) |-> Section(PlainTitle, ls[i], Some(i))], <<>>) :
        ls \in SeqsUpTo(Levels, MaxHeadings)}

\* documents that differ in their images only; image i is on page i + 1
Captions == {None, Some(""), Some("Figure 1")}
AltTexts == {None, Some(""), Some("diagram")}
CaptionPairs == Captions \X AltTexts
ImageDocs ==
    {Document(<<>>, [i \in 1..Len(cs) |-> Image(cs[i][1], Some(i + 1), cs[i][2])]) :
        cs \in SeqsUpTo(CaptionPairs, MaxImages)}

\* documents with sections and images together, from small pools
MixedSections == {Section(PlainTitle, 1, None), Section(PlainTitle, 5, Some(3))}
MixedImages == {Image(None, Some(7), None), Image(Some("Figure 1"), None, None)}
MixedDocs ==
    {Document(ss, im) : ss \in SeqsUpTo(MixedSections, MaxMixed),
                        im \in SeqsUpTo(MixedImages, MaxMixed)}

Docs == TitledDocs \cup HeadingDocs \cup ImageDocs \cup MixedDocs

\* ---------------------------------------------------------------- state
\* the files of the model: a DOCX package is its paragraphs (text and style
\* name) and the target_refs of its relationships, a PDF is its pages (the
\* text extract_text() gives, None for none, and the number of image
\* objects); anything else is a file neither parser can open
Paragraph(style, text) == [style |-> style, text |-> text]
DocxFile(paragraphs, rels) == [format |-> "docx", paragraphs |-> paragraphs, rels |-> rels]
Page(text, images) == [text |-> text, images |-> images]
PdfFile(pages) == [format |-> "pdf", pages |-> pages]
OtherFile == [format |-> "other"]
EmptyFile == [format |-> "empty"]

Heading1 == <<"H", "e", "a", "d", "i", "n", "g", " ", "1">>
Heading2 == <<"H", "e", "a", "d", "i", "n", "g", " ", "2">>
Heading3 == <<"H", "e", "a", "d", "i", "n", "g", " ", "3">>
Heading5 == <<"H", "e", "a", "d", "i", "n", "g", " ", "5">>
Normal == <<"N", "o", "r", "m", "a", "l">>

\* a manual with two missing sections, two skipped levels, a heading too
\* deep and an image
ManualDocx ==
    DocxFile(<<Paragraph(Heading1, <<"I", "n", "s", "t", "a", "l", "l", "a", "t", "i", "o", "n", " ", "G", "u", "i", "d", "e">>),
               Paragraph(Normal, <<"R", "u", "n", " ", "t", "h", "e", " ", "i", "n", "s", "t", "a", "l", "l", "e", "r", ".">>),
               Paragraph(Heading3, <<"U", "s", "a", "g", "e">>),
               Paragraph(Normal, <<"P", "r", "e", "s", "s", " ", "s", "t", "a", "r", "t", ".">>),
               Paragraph(Heading5, <<"S", "a", "f", "e", "t", "y", " ", "N", "o", "t", "e", "s">>)>>,
             <<<<"m", "e", "d", "i", "a", "/", "i", "m", "a", "g", "e", "1", ".", "p", "n", "g">>, <<"s", "t", "y", "l", "e", "s", ".", "x", "m", "l">>>>)

BlankDocx == DocxFile(<<Paragraph(Normal, <<" ", " ">>)>>, <<>>)

ManualPdf ==
    PdfFile(<<Page(Some(<<"O", "V", "E", "R", "V", "I", "E", "W", "\n", "t", "h", "i", "s", " ", "t", "o", "o", "l", " ", "c", "h", "e", "c", "k", "s", " ", "m", "a", "n", "u", "a", "l", "s", ".", "\n">>), 1),
              Page(None, 1)>>)

\* the files handed to the parsers: DOCX packages of up to MaxParagraphs
\* paragraphs, the five-paragraph manuals with two headings, and PDFs of up
\* to MaxPages pages
MaxParagraphs == 3
MaxPages == 2

PlainTexts == {<<"P", "l", "a", "i", "n", " ", "t", "e", "x", "t", " ", "h", "e", "r", "e">>, <<" ", "t", "w", "o", " ", " ", "w", "o", "r", "d", "s", " ">>, <<"S", "e", "e", " ", "p", "a", "g", "e", " ", "1", "2", ".">>}

ParagraphPool ==
    {Paragraph(Normal, text) : text \in PlainTexts}
    \cup {Paragraph(Normal, <<" ", " ">>),
          Paragraph(Heading1, <<"I", "n", "t", "r", "o", "d", "u", "c", "t", "i", "o", "n">>),
          Paragraph(Heading2, <<"S", "e", "t", "u", "p">>),
          Paragraph(Heading1, <<" ", "\t">>),
          Paragraph(<<"H", "e", "a", "d", "i", "n", "g">>, <<" ", "N", "o", "t", "e", "s", " ">>),
          Paragraph(<<"H", "e", "a", "d", "i", "n", "g", " ", "0">>, <<"P", "r", "e", "f", "a", "c", "e">>)}

RelsPool == {<<>>, <<<<"s", "t", "y", "l", "e", "s", ".", "x", "m", "l">>>>, <<<<"m", "e", "d", "i", "a", "/", "i", "m", "a", "g", "e", "1", ".", "p", "n", "g">>, <<"s", "t", "y", "l", "e", "s", ".", "x", "m", "l">>>>}

TwoHeadingManuals ==
    {DocxFile(<<Paragraph(Heading1, <<"I", "n", "t", "r", "o", "d", "u", "c", "t", "i", "o", "n">>), Paragraph(Normal, a),
                Paragraph(Normal, b), Paragraph(Heading2, <<"S", "e", "t", "u", "p">>),
                Paragraph(Normal, c)>>, <<>>) : a, b, c \in PlainTexts}

\* a text of n one-letter words, and the manuals of one long paragraph
\* whose lengths lie on both sides of one and of two pages' worth of words
WordsPerPage == 500
LongText(n) == [k \in 1..(2 * n - 1) |-> IF k % 2 = 1 THEN "w" ELSE " "]

LongManuals ==
    {DocxFile(<<Paragraph(Heading1, <<"R", "e", "f", "e", "r", "e", "n", "c", "e">>), Paragraph(Normal, LongText(n))>>, <<>>) :
        n \in {WordsPerPage - 2, WordsPerPage - 1, 2 * WordsPerPage - 2, 2 * WordsPerPage - 1}}

DocxFiles ==
    {DocxFile(ps, rels) : ps \in SeqsUpTo(ParagraphPool, MaxParagraphs), rels \in RelsPool}
    \cup TwoHeadingManuals
    \cup LongManuals

PagePool ==
    {Page(None, 1),
     Page(Some(<<>>), 0),
     Page(Some(<<"p", "l", "a", "i", "n", " ", "l", "i", "n", "e", " ", "o", "n", "e", ".", "\n", "s", "e", "c", "o", "n", "d", " ", "l", "i", "n", "e", " ", "1", "2", "3">>), 1),
     Page(Some(<<"O", "V", "E", "R", "V", "I", "E", "W", "\n", "b", "o", "d", "y", " ", "t", "e", "x", "t", ".">>), 0),
     Page(Some(<<"G", "e", "t", "t", "i", "n", "g", " ", "s", "t", "a", "r", "t", "e", "d", "\n", " ", " ", "\n", "m", "o", "r", "e", " ", "t", "e", "x", "t", ".">>), 0),
     Page(Some(<<"s", "e", "e", " ", "b", "e", "l", "o", "w", "\n", "S", "E", "T", "U", "P", "\n", "S", "t", "e", "p", " ", "1", ":", " ", "g", "o", "\n", "V", "e", "r", "s", "i", "o", "n", " ", "1", "2", "\n">>), 0),
     Page(Some(<<" ", "\n", "\n">>), 2)}

\* lines on both sides of every test of the heading heuristic: n times the
\* character c after a prefix
Filled(prefix, n, c) == prefix \o [k \in 1..n |-> c]

LinePool ==
    {<<"O", "V", "E", "R", "V", "I", "E", "W">>, <<"1", ".", " ", "S", "C", "O", "P", "E">>, <<"S", "C", "O", "P", "E", " ", "2">>, <<"N", "O", "T", "E", ".">>, <<"A", "b">>, <<"a">>, <<"7">>, <<".", ".", ".">>,
     <<"T", "i", "t", "l", "e", " ", "c", "a", "s", "e", " ", "l", "i", "n", "e">>, <<"E", "n", "d", "s", " ", "w", "i", "t", "h", " ", "p", "e", "r", "i", "o", "d", ".">>, <<"V", "e", "r", "s", "i", "o", "n", " ", "1", "2">>, <<"C", "h", "a", "p", "t", "e", "r", " ", "1", " ", "o", "f", " ", "i", "t">>,
     <<"p", "l", "a", "i", "n", " ", "t", "e", "x", "t">>, <<"S", "t", "e", "p", " ", "1", ":", " ", "g", "o">>,
     Filled(<<"A", "B">>, 47, "C"), Filled(<<"A", "B">>, 48, "C"),
     Filled(<<"2", " ">>, 58, "C"), Filled(<<"A", "B", " ">>, 56, "."),
     Filled(<<"A", "B">>, 77, "C"), Filled(<<"A", "B">>, 78, "C"),
     Filled(<<"A", "B">>, 97, "C"), Filled(<<"A", "B">>, 98, "C"),
     Filled(<<"A", "b">>, 77, "c"), Filled(<<"A", "b">>, 78, "c"), Filled(<<"A", "b">>, 98, "c")}

OneLinePdfs == {PdfFile(<<Page(Some(line), 0)>>) : line \in LinePool}

PdfFiles == {PdfFile(pages) : pages \in SeqsUpTo(PagePool, MaxPages)} \cup OneLinePdfs

Upload(filename, file) == [filename |-> filename, file |-> file]

\* the uploads sent to the analyze endpoint
Uploads ==
    {Upload(<<"a", ".", "d", "o", "c", "x">>, ManualDocx),
     Upload(<<"A", ".", "D", "O", "C", "X">>, BlankDocx),
     Upload(<<"b", ".", "d", "o", "c">>, ManualDocx),
     Upload(<<"b", ".", "d", "o", "c">>, OtherFile),
     Upload(<<"c", ".", "p", "d", "f">>, ManualPdf),
     Upload(<<"C", ".", "P", "d", "f">>, OtherFile),
     Upload(<<"c", ".", "p", "d", "f">>, ManualDocx),
     Upload(<<"n", ".", "m", "d">>, OtherFile),
     Upload(<<"t", ".", "t", "x", "t">>, OtherFile),
     Upload(<<".", "p", "d", "f">>, ManualPdf),
     Upload(<<"m", "a", "n", "u", "a", "l">>, ManualDocx),
     Upload(<<"x", ".", "p", "d", "f", ".", "e", "x", "e">>, ManualPdf)}

\* the requests the server handles at once, and the names
\* NamedTemporaryFile can hand out
MaxTmpNames == 2
RequestIds == {1, 2}
TmpNames == 1..MaxTmpNames

VARIABLES
    doc,    \* the Document under analysis
    call,   \* the function applied to it ("none" before any call)
    args,   \* the arguments of that call besides the document
    ret,    \* the value the call returned
    fs,     \* the temporary directory: the files in it, by name
    reqs    \* the analyze requests: where each one is and what it answered

vars == <<doc, call, args, ret, fs, reqs>>

\* an analyze request not yet received
IdleRequest ==
    [pc |-> "idle", upload |-> None, file_ext |-> None, tmp_path |-> None,
     calls |-> <<>>, response |-> None]

\* no analyze request and no temporary file
NoUploads ==
    /\ fs = <<>>
    /\ reqs = [r \in RequestIds |-> IdleRequest]

NoArgs == <<>>

Init ==
    /\ doc \in Docs
    /\ call = "none"
    /\ args = NoArgs
    /\ ret = <<>>
    /\ NoUploads

\* the issue lists a caller hands to the fix-suggestion stub
IssueLists ==
    {<<>>,
     <<Issue(<<"MISSING_SECTION_", "S", "A", "F", "E", "T", "Y">>, ERROR,
             <<"Missing required section: ", "S", "a", "f", "e", "t", "y">>, None, 15),
       Issue(<<"EXCESSIVE_HEADING_DEPTH_", "0">>, WARN,
             <<"Heading H", "5", " is too deep (recommend max H4)">>, Some(1), 5)>>}

\* the requests the suggest-fixes endpoint is called with
Requests ==
    {[issues |-> is, document |-> d] : is \in IssueLists, d \in {None, Some(doc)}}

CheckRequiredSections ==
    /\ call = "none"
    /\ call' = "check_required_sections"
    /\ args' = NoArgs
    /\ ret' = check_required_sections(doc)
    /\ UNCHANGED <<doc, fs, reqs>>

CheckImageCaptions ==
    /\ call = "none"
    /\ call' = "check_image_captions"
    /\ args' = NoArgs
    /\ ret' = check_image_captions(doc)
    /\ UNCHANGED <<doc, fs, reqs>>

CheckHeadingSequence ==
    /\ call = "none"
    /\ call' = "check_heading_sequence"
    /\ args' = NoArgs
    /\ ret' = check_heading_sequence(doc)
    /\ UNCHANGED <<doc, fs, reqs>>

CheckExcessiveDepth ==
    /\ call = "none"
    /\ call' = "check_excessive_depth"
    /\ args' = NoArgs
    /\ ret' = check_excessive_depth(doc)
    /\ UNCHANGED <<doc, fs, reqs>>

AnalyzeDocument ==
    /\ call = "none"
    /\ call' = "analyze_document"
    /\ args' = NoArgs
    /\ ret' = analyze_document(doc)
    /\ doc' = DocumentAfter(doc)
    /\ UNCHANGED <<fs, reqs>>

\* a second analysis of the document the first one was given
AnalyzeDocumentAgain ==
    /\ call = "analyze_document"
    /\ call' = "analyze_document again"
    /\ args' = NoArgs
    /\ ret' = analyze_document(doc)
    /\ doc' = DocumentAfter(doc)
    /\ UNCHANGED <<fs, reqs>>

GenerateFixes ==
    /\ call = "none"
    /\ \E issues \in IssueLists, enabled \in BOOLEAN :
        /\ call' = "generate_fixes"
        /\ args' = [issues |-> issues, enabled |-> enabled]
        /\ ret' = generate_fixes(doc, issues, enabled)
    /\ UNCHANGED <<doc, fs, reqs>>

SuggestFixesEndpoint ==
    /\ call = "none"
    /\ \E request \in Requests, enabled \in BOOLEAN :
        /\ call' = "suggest_fixes_endpoint"
        /\ args' = [request |-> request, enabled |-> enabled]
        /\ ret' = suggest_fixes_endpoint(request, enabled)
    /\ UNCHANGED <<doc, fs, reqs>>

Next ==
    \/ CheckRequiredSections
    \/ CheckImageCaptions
    \/ CheckHeadingSequence
    \/ CheckExcessiveDepth
    \/ AnalyzeDocument

Spec == Init /\ [][Next]_vars

\* two analyses in a row, of a document of the mixed family or of one a
\* parser returned (with section contents and metadata)
ParsedDocs ==
    {parse_docx(ManualDocx, <<"m", "a", "n", "u", "a", "l", ".", "d", "o", "c", "x">>).value,
     parse_pdf(ManualPdf, <<"m", "a", "n", "u", "a", "l", ".", "p", "d", "f">>).value}

InitTwice ==
    /\ doc \in MixedDocs \cup ParsedDocs
    /\ call = "none"
    /\ args = NoArgs
    /\ ret = <<>>
    /\ NoUploads

NextTwice ==
    \/ AnalyzeDocument
    \/ AnalyzeDocumentAgain

SpecTwice == InitTwice /\ [][NextTwice]_vars

\* the fix-suggestion pipeline: the stub and its endpoint, called with a
\* document of the mixed family
InitFix ==
    /\ doc \in MixedDocs
    /\ call = "none"
    /\ args = NoArgs
    /\ ret = <<>>
    /\ NoUploads

NextFix ==
    \/ GenerateFixes
    \/ SuggestFixesEndpoint

SpecFix == InitFix /\ [][NextFix]_vars

\* the parsers, each called on a file of its kind or on one it cannot open
ParseDocx ==
    /\ call = "none"
    /\ \E file \in DocxFiles \cup {OtherFile} :
        /\ call' = "parse_docx"
        /\ args' = [file |-> file, file_name |-> <<"m", "a", "n", "u", "a", "l", ".", "d", "o", "c", "x">>]
        /\ ret' = parse_docx(file, <<"m", "a", "n", "u", "a", "l", ".", "d", "o", "c", "x">>)
    /\ UNCHANGED <<doc, fs, reqs>>

ParsePdf ==
    /\ call = "none"
    /\ \E file \in PdfFiles \cup {OtherFile} :
        /\ call' = "parse_pdf"
        /\ args' = [file |-> file, file_name |-> <<"m", "a", "n", "u", "a", "l", ".", "p", "d", "f">>]
        /\ ret' = parse_pdf(file, <<"m", "a", "n", "u", "a", "l", ".", "p", "d", "f">>)
    /\ UNCHANGED <<doc, fs, reqs>>

InitParse ==
    /\ doc = Document(<<>>, <<>>)
    /\ call = "none"
    /\ args = NoArgs
    /\ ret = <<>>
    /\ NoUploads

NextParse ==
    \/ ParseDocx
    \/ ParsePdf

SpecParse == InitParse /\ [][NextParse]_vars

\* the analyze endpoint. The handler is a coroutine with one suspension
\* point, `await file.read()`: what comes before it is one step, what comes
\* after it another, and other requests run in between
WriteFile(files, path, file) ==
    [q \in DOMAIN files \cup {path} |-> IF q = path THEN file ELSE files[q]]

Unlink(files, path) == [q \in DOMAIN files \ {path} |-> files[q]]

\* every name, taken or not
FreshNames_Any(files) == TmpNames

\* the names NamedTemporaryFile can give a new file: it creates the file
\* exclusively, so never under the name of a file that exists
FreshNames(files) == TmpNames \ DOMAIN files

\* what can come of reading the upload and writing it to the temporary file
TransferOutcomes == {"written", "read raises", "write raises"}

\* lines 26-38: the extension is validated; an extension outside
\* allowed_extensions is answered with 400 at once, otherwise the temporary
\* file is created (delete=False, under a name no existing file has) and
\* the handler awaits the upload's bytes
ReceiveUpload(r) ==
    /\ reqs[r].pc = "idle"
    /\ \E upload \in Uploads :
        LET file_ext == FileExt(upload.filename)
        IN  IF file_ext \notin allowed_extensions
            THEN /\ reqs' = [reqs EXCEPT ![r] =
                        [pc |-> "done", upload |-> Some(upload),
                         file_ext |-> Some(file_ext), tmp_path |-> None,
                         calls |-> <<>>, response |-> Some(UnsupportedFileType)]]
                 /\ UNCHANGED fs
            ELSE \E path \in FreshNames(fs) :
                 /\ fs' = WriteFile(fs, path, EmptyFile)
                 /\ reqs' = [reqs EXCEPT ![r] =
                        [pc |-> "reading", upload |-> Some(upload),
                         file_ext |-> Some(file_ext), tmp_path |-> Some(path),
                         calls |-> <<>>, response |-> None]]
    /\ UNCHANGED <<doc, call, args, ret>>

\* lines 38-78: the bytes arrive and are written, the `with` block closes
\* the file, the try block runs on it and `finally` unlinks it. A failure
\* of read() or write() leaves the `with` block before the try statement is
\* entered: nothing handles it and no `finally` runs
ResumeUpload(r) ==
    /\ reqs[r].pc = "reading"
    /\ \E outcome \in TransferOutcomes :
        LET upload == reqs[r].upload[1]
            tmp_path == reqs[r].tmp_path[1]
        IN  IF outcome # "written"
            THEN /\ reqs' = [reqs EXCEPT ![r].pc = "done",
                                         ![r].response = Some(InternalServerError)]
                 /\ UNCHANGED fs
            ELSE LET written == WriteFile(fs, tmp_path, upload.file)
                     outcomeOfTry == ProcessUpload(reqs[r].file_ext[1],
                                                   written[tmp_path], upload.filename)
                 IN  /\ reqs' = [reqs EXCEPT ![r].pc = "done",
                                             ![r].calls = outcomeOfTry.calls,
                                             ![r].response = Some(outcomeOfTry.response)]
                     /\ fs' = IF tmp_path \in DOMAIN written
                              THEN Unlink(written, tmp_path) ELSE written
    /\ UNCHANGED <<doc, call, args, ret>>

InitAnalyze ==
    /\ doc = Document(<<>>, <<>>)
    /\ call = "none"
    /\ args = NoArgs
    /\ ret = <<>>
    /\ NoUploads

NextAnalyze ==
    \/ \E r \in RequestIds : ReceiveUpload(r)
    \/ \E r \in RequestIds : ResumeUpload(r)

SpecAnalyze == InitAnalyze /\ [][NextAnalyze]_vars

\* ------------------------------------------------- vocabulary of the claims
\* the number of issues of a list that carry the given id
CountId(issues, id) == Cardinality({k \in 1..Len(issues) : issues[k].id = id})

\* the sum of the penalties of a list of issues
RECURSIVE SumPenalties(_)
SumPenalties(issues) ==
    IF issues = <<>> THEN 0 ELSE Head(issues).penalty + SumPenalties(Tail(issues))

\* the heading-levels list L of a document: the levels of its sections with
\* level > 0, in document order
IsHeading(section) == section.level > 0
HeadingLevelsOf(d) ==
    LET hs == SelectSeq(d.sections, IsHeading)
    IN  [i \in 1..Len(hs) |-> hs[i].level]

\* a lower-case keyword occurs in a title, compared case-insensitively
ContainsIgnoringCase(t, keyword) ==
    \E off \in 0..(Len(t) - Len(keyword)) :
        \A j \in 1..Len(keyword) : LowerChar(t[off + j]) = keyword[j]

\* some section title of d contains, case-insensitively, one of the keywords
SomeTitleHas(d, keywords) ==
    \E i \in 1..Len(d.sections) : \E k \in 1..Len(keywords) :
        ContainsIgnoringCase(d.sections[i].title, keywords[k])

\* the ids of the four missing-section issues, in keyword-table order
MissingSectionIds == <<
    <<"MISSING_SECTION_", "I", "N", "T", "R", "O", "D", "U", "C", "T", "I", "O", "N">>,
    <<"MISSING_SECTION_", "I", "N", "S", "T", "A", "L", "L", "A", "T", "I", "O", "N">>,
    <<"MISSING_SECTION_", "S", "A", "F", "E", "T", "Y">>,
    <<"MISSING_SECTION_", "T", "R", "O", "U", "B", "L", "E", "S", "H", "O", "O", "T", "I", "N", "G">> >>

HasTitle(d, t) == \E i \in 1..Len(d.sections) : d.sections[i].title = t

\* the decimal number written by the characters cs
RECURSIVE ParseInt(_)
ParseInt(cs) ==
    IF cs = <<>> THEN 0
    ELSE 10 * ParseInt(SubSeq(cs, 1, Len(cs) - 1))
         + (CHOOSE v \in 0..9 : DigitChars[v + 1] = cs[Len(cs)])

\* ------------------------------------------------------------------- C1
\* C1: for every Document, analyze_document returns a score with
\* 0 <= score <= 100 that is exactly max(0, 100 - sum of the penalties of
\* the returned issues).
C1_ScoreExact ==
    call = "analyze_document" =>
        /\ ret.score \in 0..100
        /\ ret.score = (IF 100 - SumPenalties(ret.issues) > 0
                        THEN 100 - SumPenalties(ret.issues) ELSE 0)

\* an analysis whose penalties exceed 100, so that the clamp decides the score
C1_Witness ==
    /\ call = "analyze_document"
    /\ SumPenalties(ret.issues) > 100
    /\ ret.score = 0

\* ------------------------------------------------------------------- C2
\* the rule an issue comes from (1 required sections, 2 image captions,
\* 3 heading sequence, 4 excessive depth) and its place within that rule
RuleOf(issue) ==
    CASE issue.id[1] = "MISSING_SECTION_" -> 1
      [] issue.id[1] = "MISSING_IMAGE_CAPTION_" -> 2
      [] issue.id[1] = "BROKEN_HEADING_SEQUENCE_" -> 3
      [] issue.id[1] = "EXCESSIVE_HEADING_DEPTH_" -> 4

PlaceOf(issue) ==
    IF RuleOf(issue) = 1
    THEN CHOOSE r \in 1..Len(MissingSectionIds) : MissingSectionIds[r] = issue.id
    ELSE ParseInt(Tail(issue.id))

\* C2: the issue list of analyze_document is the required-section issues (in
\* keyword-table order), then the image-caption issues (ascending image
\* index), then the heading-sequence issues, then the excessive-depth issues
\* (both ascending position); it is not ordered by severity or page.
C2_RuleOrder ==
    call = "analyze_document" =>
        /\ ret.issues = check_required_sections(doc) \o check_image_captions(doc)
                            \o check_heading_sequence(doc) \o check_excessive_depth(doc)
        /\ \A i, j \in 1..Len(ret.issues) :
              i < j =>
                  \/ RuleOf(ret.issues[i]) < RuleOf(ret.issues[j])
                  \/ /\ RuleOf(ret.issues[i]) = RuleOf(ret.issues[j])
                     /\ PlaceOf(ret.issues[i]) < PlaceOf(ret.issues[j])

\* an analysis with issues of all four rules, in which an image issue of
\* page 7 precedes a heading issue of page 3
C2_Witness ==
    /\ call = "analyze_document"
    /\ \A r \in 1..4 : \E k \in 1..Len(ret.issues) : RuleOf(ret.issues[k]) = r
    /\ \E i, j \in 1..Len(ret.issues) :
          i < j /\ ret.issues[i].page = Some(7) /\ ret.issues[j].page = Some(3)

\* ------------------------------------------------------------------- C3
\* C3: for each of the four canonical names, check_required_sections emits
\* exactly one issue (ERROR, id MISSING_SECTION_<NAME>, penalty 15, no page)
\* if and only if no section title contains, case-insensitively, a keyword of
\* that name as a substring; it emits nothing else.
C3_RequiredSections ==
    call = "check_required_sections" =>
        /\ \A r \in 1..Len(MissingSectionIds) :
              CountId(ret, MissingSectionIds[r])
                  = (IF SomeTitleHas(doc, REQUIRED_SECTIONS[r].keywords) THEN 0 ELSE 1)
        /\ \A k \in 1..Len(ret) :
              /\ \E r \in 1..Len(MissingSectionIds) : ret[k].id = MissingSectionIds[r]
              /\ ret[k].severity = "ERROR"
              /\ ret[k].penalty = 15
              /\ ret[k].page = None

\* a document whose titles "FAQ" and "Reinstall" satisfy troubleshooting and
\* installation only through case folding and substring matching, while
\* introduction and safety are reported
C3_Witness ==
    /\ call = "check_required_sections"
    /\ HasTitle(doc, <<"F", "A", "Q">>)
    /\ HasTitle(doc, <<"R", "e", "i", "n", "s", "t", "a", "l", "l">>)
    /\ Len(ret) = 2
    /\ ret[1].id = MissingSectionIds[1]
    /\ ret[2].id = MissingSectionIds[3]

\* ------------------------------------------------------------------- C4
QuickStartGuide == <<"Q", "u", "i", "c", "k", " ", "S", "t", "a", "r", "t", " ", "G", "u", "i", "d", "e">>
GettingStarted == <<"G", "e", "t", "t", "i", "n", "g", " ", "S", "t", "a", "r", "t", "e", "d">>

\* the installation keywords of the table, written out
InstallationKeywords == <<
    <<"i", "n", "s", "t", "a", "l", "l", "a", "t", "i", "o", "n">>,
    <<"i", "n", "s", "t", "a", "l", "l">>,
    <<"s", "e", "t", "u", "p">>,
    <<"g", "e", "t", "t", "i", "n", "g", " ", "s", "t", "a", "r", "t", "e", "d">> >>

\* C4 as stated: a document that has a section titled "Quick Start Guide" gets
\* no MISSING_SECTION_INSTALLATION issue.
C4_Original ==
    (call = "check_required_sections" /\ HasTitle(doc, QuickStartGuide)) =>
        CountId(ret, MissingSectionIds[2]) = 0

\* C4 amended: the title "Quick Start Guide" contains none of the installation
\* keywords, so a document with such a section gets exactly one
\* MISSING_SECTION_INSTALLATION issue unless some section title contains
\* installation, install, setup or getting started; a document with a section
\* titled "Getting Started" gets none.
C4_QuickStartNotInstallation ==
    call = "check_required_sections" =>
        /\ HasTitle(doc, QuickStartGuide) =>
              CountId(ret, MissingSectionIds[2])
                  = (IF SomeTitleHas(doc, InstallationKeywords) THEN 0 ELSE 1)
        /\ HasTitle(doc, GettingStarted) => CountId(ret, MissingSectionIds[2]) = 0

\* the document whose only section is "Quick Start Guide": installation is
\* reported missing
C4_Witness ==
    /\ call = "check_required_sections"
    /\ Len(doc.sections) = 1
    /\ HasTitle(doc, QuickStartGuide)
    /\ CountId(ret, MissingSectionIds[2]) = 1

\* ------------------------------------------------------------------- C5
\* position p of L (1-based; Python's index is p - 1) is a skip: its level is
\* more than one deeper than the level just before it
IsSkip(L, p) == p >= 2 /\ L[p] > L[p - 1] + 1

SequenceId(i) == <<"BROKEN_HEADING_SEQUENCE_">> \o IntToStr(i)

\* C5: check_heading_sequence emits exactly one WARN issue with id
\* BROKEN_HEADING_SEQUENCE_<i> and penalty 10 for each 0-based position i >= 1
\* of the heading-levels list L with L[i] > L[i-1] + 1, and no other issue;
\* the comparison is with the immediately preceding level, so an empty or
\* one-element L yields nothing.
C5_HeadingSequence ==
    call = "check_heading_sequence" =>
        LET L == HeadingLevelsOf(doc)
        IN  /\ \A p \in 1..Len(L) :
                  CountId(ret, SequenceId(p - 1)) = (IF IsSkip(L, p) THEN 1 ELSE 0)
            /\ \A k \in 1..Len(ret) :
                  /\ \E p \in 1..Len(L) : ret[k].id = SequenceId(p - 1)
                  /\ ret[k].severity = "WARN"
                  /\ ret[k].penalty = 10
            /\ Len(L) <= 1 => ret = <<>>

\* a jump followed by a step of one from the jumped-to level: only the jump
\* is reported
C5_Witness ==
    /\ call = "check_heading_sequence"
    /\ HeadingLevelsOf(doc) = <<1, 3, 4>>
    /\ Len(doc.sections) = 4
    /\ Len(ret) = 1
    /\ ret[1].id = SequenceId(1)

\* ------------------------------------------------------------------- C6
JumpMessage(from, to) ==
    <<"Heading level jumps from H">> \o IntToStr(from) \o <<" to H">>
        \o IntToStr(to) \o <<" (skipped levels)">>

\* C6 as stated: heading levels [1,2,4] yield exactly one issue, with index 1
\* in its id and the jump from H2 to H4 in its message; [1,2,3,4] yield none.
C6_Original ==
    call = "check_heading_sequence" =>
        /\ HeadingLevelsOf(doc) = <<1, 2, 4>> =>
              /\ Len(ret) = 1
              /\ ret[1].id = <<"BROKEN_HEADING_SEQUENCE_", "1">>
              /\ ret[1].message = JumpMessage(2, 4)
        /\ HeadingLevelsOf(doc) = <<1, 2, 3, 4>> => ret = <<>>

\* C6 amended: heading levels [1,2,4] yield exactly one issue, whose id carries
\* index 2, the 0-based position of the level-4 heading, and whose message
\* reports the jump from H2 to H4; [1,2,3,4] yield none.
C6_SkipAtIndexTwo ==
    call = "check_heading_sequence" =>
        /\ HeadingLevelsOf(doc) = <<1, 2, 4>> =>
              /\ Len(ret) = 1
              /\ ret[1].id = <<"BROKEN_HEADING_SEQUENCE_", "2">>
              /\ ret[1].message = JumpMessage(2, 4)
        /\ HeadingLevelsOf(doc) = <<1, 2, 3, 4>> => ret = <<>>

\* the sequence check has run on a document with heading levels [1,2,4]
C6_Witness ==
    /\ call = "check_heading_sequence"
    /\ HeadingLevelsOf(doc) = <<1, 2, 4>>
    /\ Len(ret) = 1

\* ------------------------------------------------------------------- C7
\* C7 as stated: heading levels [2,1,3] yield no heading-sequence issue.
C7_Original ==
    (call = "check_heading_sequence" /\ HeadingLevelsOf(doc) = <<2, 1, 3>>) =>
        ret = <<>>

\* C7 amended: for heading levels [2,1,3] the decrease from 2 to 1 yields no
\* issue, and the increase from 1 to 3 yields exactly one,
\* BROKEN_HEADING_SEQUENCE_2, reporting the jump from H1 to H3.
C7_DecreaseThenSkip ==
    (call = "check_heading_sequence" /\ HeadingLevelsOf(doc) = <<2, 1, 3>>) =>
        /\ Len(ret) = 1
        /\ ret[1].id = <<"BROKEN_HEADING_SEQUENCE_", "2">>
        /\ ret[1].message = JumpMessage(1, 3)

\* the sequence check has run on a document with heading levels [2,1,3]
C7_Witness ==
    /\ call = "check_heading_sequence"
    /\ HeadingLevelsOf(doc) = <<2, 1, 3>>
    /\ ret # <<>>

\* ------------------------------------------------------------------- C8
DepthId(i) == <<"EXCESSIVE_HEADING_DEPTH_">> \o IntToStr(i)

\* C8: check_excessive_depth emits exactly one WARN issue with id
\* EXCESSIVE_HEADING_DEPTH_<i> and penalty 5 for each 0-based position i of
\* the heading-levels list L with L[i] > 4, and none for a position with
\* L[i] <= 4; an empty L yields nothing.
C8_ExcessiveDepth ==
    call = "check_excessive_depth" =>
        LET L == HeadingLevelsOf(doc)
        IN  /\ \A p \in 1..Len(L) :
                  CountId(ret, DepthId(p - 1)) = (IF L[p] > 4 THEN 1 ELSE 0)
            /\ \A k \in 1..Len(ret) :
                  /\ \E p \in 1..Len(L) : ret[k].id = DepthId(p - 1)
                  /\ ret[k].severity = "WARN"
                  /\ ret[k].penalty = 5
            /\ L = <<>> => ret = <<>>

\* a level-4 heading followed by a level-5 heading, behind a section that is
\* not a heading: one issue, for position 1 of L
C8_Witness ==
    /\ call = "check_excessive_depth"
    /\ Len(doc.sections) = 3
    /\ HeadingLevelsOf(doc) = <<4, 5>>
    /\ Len(ret) = 1
    /\ ret[1].id = DepthId(1)

\* ------------------------------------------------------------------- C9
\* an image lacks a caption (an alt text) when the field is None or empty
Lacks(opt) == opt = None \/ opt = Some("")

CaptionId(i) == <<"MISSING_IMAGE_CAPTION_">> \o IntToStr(i)

\* C9: check_image_captions emits exactly one WARN issue (id
\* MISSING_IMAGE_CAPTION_<i>, penalty 5, page the image's page) for each image
\* at 0-based position i of the image list that lacks both caption and alt
\* text, none for an image that has a caption or an alt text, and nothing for
\* a document without images.
C9_ImageCaptions ==
    call = "check_image_captions" =>
        /\ \A p \in 1..Len(doc.images) :
              LET missing == {k \in 1..Len(ret) : ret[k].id = CaptionId(p - 1)}
              IN  IF Lacks(doc.images[p].caption) /\ Lacks(doc.images[p].alt_text)
                  THEN /\ Cardinality(missing) = 1
                       /\ \A k \in missing : /\ ret[k].severity = "WARN"
                                             /\ ret[k].penalty = 5
                                             /\ ret[k].page = doc.images[p].page
                  ELSE missing = {}
        /\ \A k \in 1..Len(ret) :
              \E p \in 1..Len(doc.images) : ret[k].id = CaptionId(p - 1)
        /\ doc.images = <<>> => ret = <<>>

\* an image with only an alt text ahead of an image with neither: one issue,
\* for index 1
C9_Witness ==
    /\ call = "check_image_captions"
    /\ Len(doc.images) = 2
    /\ doc.images[1].caption = None /\ doc.images[1].alt_text = Some("diagram")
    /\ Len(ret) = 1
    /\ ret[1].id = CaptionId(1)

\* ------------------------------------------------------------------ C10
\* C10: with the enablement flag false, generate_fixes returns [] for every
\* document and issue list, and the suggest-fixes endpoint answers with an
\* empty suggestions list whether or not a document is supplied.
C10_DisabledIsEmpty ==
    /\ (call = "generate_fixes" /\ ~args.enabled) => ret = <<>>
    /\ (call = "suggest_fixes_endpoint" /\ ~args.enabled) =>
          /\ "suggestions" \in DOMAIN ret
          /\ ret.suggestions = <<>>

\* generate_fixes has been called, disabled, with a non-empty issue list on a
\* document that has sections
C10_Witness ==
    /\ call = "generate_fixes"
    /\ ~args.enabled
    /\ args.issues # <<>>
    /\ doc.sections # <<>>

\* ------------------------------------------------------------------ C11
\* C11: in the suggest-fixes endpoint a request with enabled=true and no
\* document is rejected with status 400, an outcome distinct from the
\* feature-disabled response; the missing-document error is never produced
\* when enabled=false; with enabled=true and a document the response has the
\* {suggestions: [...]} shape.
C11_MissingDocumentIsCallerError ==
    call = "suggest_fixes_endpoint" =>
        /\ (args.enabled /\ args.request.document = None) =>
              /\ DOMAIN ret = {"status_code", "detail"}
              /\ ret.status_code = 400
        /\ ~args.enabled =>
              /\ "status_code" \notin DOMAIN ret
              /\ "suggestions" \in DOMAIN ret
        /\ (args.enabled /\ args.request.document # None) =>
              /\ DOMAIN ret = {"suggestions"}
              /\ DOMAIN ret.suggestions = 1..Len(ret.suggestions)

\* the endpoint has been called enabled and without a document, and has
\* answered 400
C11_Witness ==
    /\ call = "suggest_fixes_endpoint"
    /\ args.enabled
    /\ args.request.document = None
    /\ args.request.issues # <<>>
    /\ "status_code" \in DOMAIN ret

\* ---------------------------------------------------------------- C12
\* the requests that have been received, and the extension the claims speak
\* of: the filename's extension, compared without regard to case
Received(r) == reqs[r].upload # None
ExtensionOf(r) == lower(splitext(reqs[r].upload[1].filename)[2])
SupportedExtensions == {<<".", "d", "o", "c", "x">>, <<".", "d", "o", "c">>, <<".", "p", "d", "f">>, <<".", "m", "d">>}
StatusOf(r) == reqs[r].response[1].status_code

\* C12: an upload whose extension, compared case-insensitively, is outside
\* {.docx, .doc, .pdf, .md} is answered with 400 at once: the request has
\* created no temporary file and has invoked no parser.
C12_UnsupportedRejectedFirst ==
    \A r \in RequestIds :
        (Received(r) /\ ExtensionOf(r) \notin SupportedExtensions) =>
            /\ reqs[r].pc = "done"
            /\ StatusOf(r) = 400
            /\ reqs[r].tmp_path = None
            /\ reqs[r].calls = <<>>

\* a "x.pdf.exe" upload was refused while another request's temporary file
\* is the only file there is
C12_Witness ==
    \E r, q \in RequestIds :
        /\ Received(r)
        /\ reqs[r].upload[1].filename = <<"x", ".", "p", "d", "f", ".", "e", "x", "e">>
        /\ StatusOf(r) = 400
        /\ reqs[q].pc = "reading"
        /\ DOMAIN fs = {reqs[q].tmp_path[1]}

\* ---------------------------------------------------------------- C13
\* a request that ran its try block: it is done, and what it answered is
\* neither the 400 of the validation nor the bare 500 of an unhandled failure
RanTryBlock(r) ==
    /\ reqs[r].pc = "done"
    /\ reqs[r].tmp_path # None
    /\ reqs[r].response # Some(InternalServerError)

\* C13: a ".md" upload whose bytes were stored is answered with the
\* not-implemented outcome: status 501 and the detail "Markdown parsing not
\* yet implemented", not the 400 of an unsupported type and not the 500 of
\* a processing failure.
C13_MarkdownNotImplemented ==
    \A r \in RequestIds :
        (RanTryBlock(r) /\ ExtensionOf(r) = <<".", "m", "d">>) =>
            /\ StatusOf(r) = 501
            /\ reqs[r].response[1].detail = <<"Markdown parsing not yet implemented">>

\* what the code answers instead: the 500 of a processing failure, quoting
\* the 501 it swallowed
C13_MarkdownAnswered500 ==
    \E r \in RequestIds :
        /\ RanTryBlock(r)
        /\ ExtensionOf(r) = <<".", "m", "d">>
        /\ StatusOf(r) = 500
        /\ reqs[r].response[1].detail =
               <<"Error processing document: ", "5", "0", "1", ": ",
                 "Markdown parsing not yet implemented">>

\* ---------------------------------------------------------------- C14
\* C14: whenever a call that created its temporary file returns (with a
\* report, after a parser failure, after the ".md" rejection, or after a
\* failure to read the upload or to write it to the file), the temporary
\* file exists no longer.
C14_TempFileGoneOnReturn ==
    [][\A r \in RequestIds :
          (reqs[r].pc = "reading" /\ reqs'[r].pc = "done") =>
              reqs[r].tmp_path[1] \notin DOMAIN fs']_vars

\* a call has returned the bare 500 of a failed transfer and its temporary
\* file, still empty, is in the directory
C14_TempFileLeftBehind ==
    \E r \in RequestIds :
        /\ reqs[r].pc = "done"
        /\ reqs[r].response = Some(InternalServerError)
        /\ reqs[r].tmp_path[1] \in DOMAIN fs
        /\ fs[reqs[r].tmp_path[1]] = EmptyFile

\* ---------------------------------------------------------------- C15
\* the stored bytes are not a file the parser chosen by the extension opens
ParserFails(r) ==
    LET file == reqs[r].upload[1].file
    IN  \/ ExtensionOf(r) \in {<<".", "d", "o", "c", "x">>, <<".", "d", "o", "c">>} /\ file.format # "docx"
        \/ ExtensionOf(r) = <<".", "p", "d", "f">> /\ file.format # "pdf"

Called(r, function) == \E k \in 1..Len(reqs[r].calls) : reqs[r].calls[k] = function

\* C15: when the parser fails, the call ends in the processing failure
\* (500, "Error processing document: ..."): analyze_document is not called
\* and the answer carries no LintReport.
C15_ParserFailureIsProcessingFailure ==
    \A r \in RequestIds :
        (RanTryBlock(r) /\ ParserFails(r)) =>
            /\ StatusOf(r) = 500
            /\ DOMAIN reqs[r].response[1] = {"status_code", "detail"}
            /\ Head(reqs[r].response[1].detail) = "Error processing document: "
            /\ ~Called(r, "analyze_document")
            /\ Called(r, "parse_docx") \/ Called(r, "parse_pdf")

\* a ".doc" upload that is no DOCX package and a ".pdf" upload that holds a
\* DOCX package have both been answered, each after its parser was called
C15_Witness ==
    \E r, q \in RequestIds :
        /\ RanTryBlock(r) /\ ParserFails(r) /\ Called(r, "parse_docx")
        /\ RanTryBlock(q) /\ ParserFails(q) /\ Called(q, "parse_pdf")
        /\ reqs[q].upload[1].file = ManualDocx

\* ---------------------------------------------------------------- C20
\* the number of issues of a list with the given severity
RECURSIVE Tally(_, _)
Tally(issues, severity) ==
    IF issues = <<>> THEN 0
    ELSE (IF Head(issues).severity = severity THEN 1 ELSE 0) + Tally(Tail(issues), severity)

Reported(r) == reqs[r].pc = "done" /\ StatusOf(r) = 200
ReportOf(r) == reqs[r].response[1].body

\* C20: in every LintReport the endpoint returns, summary.errors is the
\* number of ERROR issues, summary.warnings the number of WARN issues, the
\* two add up to len(issues), and errors is at most 4, whatever the score.
C20_SummaryTallies ==
    \A r \in RequestIds :
        Reported(r) =>
            LET report == ReportOf(r)
            IN  /\ report.summary.errors = Tally(report.issues, "ERROR")
                /\ report.summary.warnings = Tally(report.issues, "WARN")
                /\ report.summary.errors + report.summary.warnings = Len(report.issues)
                /\ report.summary.errors <= 4

\* one report tallies 4 errors and no warning, another 2 errors and 4
\* warnings
C20_Witness ==
    \E r, q \in RequestIds :
        /\ Reported(r) /\ ReportOf(r).summary = [errors |-> 4, warnings |-> 0]
        /\ Reported(q) /\ ReportOf(q).summary = [errors |-> 2, warnings |-> 4]
        /\ ReportOf(q).score = 40

\* ---------------------------------------------------------------- C16
\* a text of white space only; a DOCX package without a non-blank paragraph
\* and without an image relationship; a PDF none of whose pages (if it has
\* any) yields text
IsBlank(text) == \A k \in 1..Len(text) : text[k] \in {" ", "\t", "\n"}

EmptyDocx(file) ==
    /\ file.format = "docx"
    /\ \A k \in 1..Len(file.paragraphs) : IsBlank(file.paragraphs[k].text)
    /\ \A k \in 1..Len(file.rels) : ~StrIn(<<"i", "m", "a", "g", "e">>, file.rels[k])

EmptyPdf(file) ==
    /\ file.format = "pdf"
    /\ \A k \in 1..Len(file.pages) : file.pages[k].text \in {None, Some(<<>>)}

EmptyDocument(result) ==
    /\ ~result.raised
    /\ result.value.sections = <<>>
    /\ result.value.images = <<>>
    /\ result.value.metadata.word_count = 0
    /\ result.value.metadata.page_count >= 1

\* C16: an empty input (a DOCX without non-blank paragraphs and image
\* relationships, a PDF without pages or without a page that yields text)
\* parses to a Document with no section, no image, word_count 0 and
\* page_count >= 1.
C16_EmptyInputEmptyDocument ==
    /\ (call = "parse_docx" /\ EmptyDocx(args.file)) => EmptyDocument(ret)
    /\ (call = "parse_pdf" /\ EmptyPdf(args.file)) => EmptyDocument(ret)

\* the PDF without pages parses to a Document whose page_count is 0
C16_NoPagesGivesPageCountZero ==
    /\ call = "parse_pdf"
    /\ args.file = PdfFile(<<>>)
    /\ ~ret.raised
    /\ ret.value.sections = <<>> /\ ret.value.images = <<>>
    /\ ret.value.metadata.word_count = 0
    /\ ret.value.metadata.page_count = 0

\* ---------------------------------------------------------------- C17
IntroductionTitle == <<"I", "n", "t", "r", "o", "d", "u", "c", "t", "i", "o", "n">>

\* the stripped non-blank texts of a list of texts, in order
RECURSIVE NonBlankStripped(_)
NonBlankStripped(texts) ==
    IF texts = <<>> THEN <<>>
    ELSE (IF IsBlank(Head(texts)) THEN <<>> ELSE <<strip(Head(texts))>>)
         \o NonBlankStripped(Tail(texts))

ParagraphTexts(file) == [k \in 1..Len(file.paragraphs) |-> file.paragraphs[k].text]

\* a DOCX package with content and no heading: some paragraph is not
\* blank, and no non-blank paragraph has a "Heading" style
DocxContentNoHeading(file) ==
    /\ file.format = "docx"
    /\ \E k \in 1..Len(file.paragraphs) : ~IsBlank(file.paragraphs[k].text)
    /\ \A k \in 1..Len(file.paragraphs) :
          ~IsBlank(file.paragraphs[k].text) =>
              ~StartsWith(file.paragraphs[k].style, <<"H", "e", "a", "d", "i", "n", "g">>)

\* the content lines of a PDF page: the stripped non-blank lines of its text
PageLines(page) ==
    IF page.text \in {None, Some(<<>>)} THEN <<>>
    ELSE NonBlankStripped(SplitLines(page.text[1]))

\* a PDF with content and no heading: some page has a content line, and no
\* content line of any page is taken as a heading
PdfContentNoHeading(file) ==
    /\ file.format = "pdf"
    /\ \E k \in 1..Len(file.pages) : PageLines(file.pages[k]) # <<>>
    /\ \A k \in 1..Len(file.pages) :
          \A j \in 1..Len(PageLines(file.pages[k])) :
              LET line == PageLines(file.pages[k])[j]
              IN  ~(is_heading(line) /\ Len(line) < 80)

\* all the content lines of a PDF, page after page
RECURSIVE AllPageLines(_)
AllPageLines(pages) ==
    IF pages = <<>> THEN <<>> ELSE PageLines(Head(pages)) \o AllPageLines(Tail(pages))

\* the statement as it was made: one "Introduction" section of level 1
\* holding all the content, for both parsers and any number of pages
C17_Original ==
    /\ (call = "parse_docx" /\ DocxContentNoHeading(args.file)) =>
          /\ Len(ret.value.sections) = 1
          /\ ret.value.sections[1].title = IntroductionTitle
          /\ ret.value.sections[1].level = 1
          /\ ret.value.sections[1].content =
                 JoinLines(NonBlankStripped(ParagraphTexts(args.file)))
    /\ (call = "parse_pdf" /\ PdfContentNoHeading(args.file)) =>
          /\ Len(ret.value.sections) = 1
          /\ ret.value.sections[1].title = IntroductionTitle
          /\ ret.value.sections[1].level = 1
          /\ ret.value.sections[1].content = JoinLines(AllPageLines(args.file.pages))

\* the "Introduction" sections a PDF without headings gives: one for each
\* page that has a content line, in page order, from page k on
RECURSIVE IntroductionPerPage(_, _)
IntroductionPerPage(pages, k) ==
    IF k > Len(pages) THEN <<>>
    ELSE (IF PageLines(pages[k]) = <<>> THEN <<>>
          ELSE <<SectionWithContent(IntroductionTitle, 1,
                                    JoinLines(PageLines(pages[k])), Some(k))>>)
         \o IntroductionPerPage(pages, k + 1)

\* C17: when the input holds content but no heading, the DOCX parser
\* returns exactly one section, titled "Introduction", of level 1, holding
\* all the content; the PDF parser returns one such section for each page
\* that has content, holding that page's content.
C17_IntroductionPerPage ==
    /\ (call = "parse_docx" /\ DocxContentNoHeading(args.file)) =>
          ret.value.sections =
              <<SectionWithContent(IntroductionTitle, 1,
                    JoinLines(NonBlankStripped(ParagraphTexts(args.file))), Some(1))>>
    /\ (call = "parse_pdf" /\ PdfContentNoHeading(args.file)) =>
          ret.value.sections = IntroductionPerPage(args.file.pages, 1)

\* a PDF of two pages of plain lines has been parsed into two
\* "Introduction" sections, on pages 1 and 2
C17_Witness ==
    /\ call = "parse_pdf"
    /\ PdfContentNoHeading(args.file)
    /\ Len(args.file.pages) = 2
    /\ Len(ret.value.sections) = 2
    /\ ret.value.sections[1].page = Some(1)
    /\ ret.value.sections[2].page = Some(2)
    /\ ret.value.sections[2].title = IntroductionTitle

\* ---------------------------------------------------------------- C18
\* the whitespace-delimited tokens of a text: the places where a token starts
Tokens(text) ==
    Cardinality({k \in 1..Len(text) :
                    /\ ~IsBlank(<<text[k]>>)
                    /\ k = 1 \/ IsBlank(<<text[k - 1]>>)})

\* the manual of the scenario: "Heading 1" "Introduction", two plain
\* paragraphs, "Heading 2" "Setup", one plain paragraph
IsTwoHeadingManual(file) ==
    /\ file.format = "docx"
    /\ Len(file.paragraphs) = 5
    /\ file.paragraphs[1] = Paragraph(<<"H", "e", "a", "d", "i", "n", "g", " ", "1">>, <<"I", "n", "t", "r", "o", "d", "u", "c", "t", "i", "o", "n">>)
    /\ file.paragraphs[4] = Paragraph(<<"H", "e", "a", "d", "i", "n", "g", " ", "2">>, <<"S", "e", "t", "u", "p">>)
    /\ \A k \in {2, 3, 5} :
          /\ file.paragraphs[k].style = <<"N", "o", "r", "m", "a", "l">>
          /\ ~IsBlank(file.paragraphs[k].text)

PlainTokens(file) ==
    Tokens(file.paragraphs[2].text) + Tokens(file.paragraphs[3].text)
    + Tokens(file.paragraphs[5].text)

TwoSectionsOneTwo(result) ==
    /\ ~result.raised
    /\ Len(result.value.sections) = 2
    /\ result.value.sections[1].level = 1
    /\ result.value.sections[2].level = 2

\* the statement as it was made: the word count is the token count of the
\* three plain paragraphs, the heading texts adding nothing
C18_Original ==
    (call = "parse_docx" /\ IsTwoHeadingManual(args.file)) =>
        /\ TwoSectionsOneTwo(ret)
        /\ ret.value.metadata.word_count = PlainTokens(args.file)

\* C18: the manual with "Heading 1" "Introduction", two plain paragraphs,
\* "Heading 2" "Setup" and one plain paragraph parses to exactly 2
\* sections of levels [1, 2], titled "Introduction" and "Setup"; its
\* word_count is the token count of the three plain paragraphs plus 2, one
\* token for each heading text.
C18_HeadingsAreCounted ==
    (call = "parse_docx" /\ IsTwoHeadingManual(args.file)) =>
        /\ TwoSectionsOneTwo(ret)
        /\ ret.value.sections[1].title = <<"I", "n", "t", "r", "o", "d", "u", "c", "t", "i", "o", "n">>
        /\ ret.value.sections[2].title = <<"S", "e", "t", "u", "p">>
        /\ ret.value.metadata.word_count = PlainTokens(args.file) + 2

\* the manual whose plain paragraphs hold 3, 2 and 3 tokens has been
\* parsed: 10 words
C18_Witness ==
    /\ call = "parse_docx"
    /\ IsTwoHeadingManual(args.file)
    /\ args.file.paragraphs[2].text = <<"P", "l", "a", "i", "n", " ", "t", "e", "x", "t", " ", "h", "e", "r", "e">>
    /\ args.file.paragraphs[3].text = <<" ", "t", "w", "o", " ", " ", "w", "o", "r", "d", "s", " ">>
    /\ args.file.paragraphs[5].text = <<"S", "e", "e", " ", "p", "a", "g", "e", " ", "1", "2", ".">>
    /\ ret.value.metadata.word_count = 10

\* ---------------------------------------------------------------- C19
\* the severity and the penalty each kind of issue must carry, by the
\* prefix of its id
ExpectedSeverity(id) == IF Head(id) = "MISSING_SECTION_" THEN "ERROR" ELSE "WARN"

ExpectedPenalty(id) ==
    CASE Head(id) = "MISSING_SECTION_" -> 15
      [] Head(id) = "MISSING_IMAGE_CAPTION_" -> 5
      [] Head(id) = "BROKEN_HEADING_SEQUENCE_" -> 10
      [] Head(id) = "EXCESSIVE_HEADING_DEPTH_" -> 5

\* C19: in every issue list analyze_document returns, an issue is an ERROR
\* exactly when it is a MISSING_SECTION_* issue, every other issue is a
\* WARN, and the penalties are fixed by kind: 15 for a missing section, 5
\* for a missing image caption, 10 for a broken heading sequence, 5 for an
\* excessive heading depth.
C19_SeverityAndPenaltyByKind ==
    call = "analyze_document" =>
        \A k \in 1..Len(ret.issues) :
            /\ Head(ret.issues[k].id) \in
                   {"MISSING_SECTION_", "MISSING_IMAGE_CAPTION_",
                    "BROKEN_HEADING_SEQUENCE_", "EXCESSIVE_HEADING_DEPTH_"}
            /\ ret.issues[k].severity = ExpectedSeverity(ret.issues[k].id)
            /\ ret.issues[k].penalty = ExpectedPenalty(ret.issues[k].id)

\* a list with an issue of each of the four kinds has been returned
C19_Witness ==
    /\ call = "analyze_document"
    /\ \A prefix \in {"MISSING_SECTION_", "MISSING_IMAGE_CAPTION_",
                      "BROKEN_HEADING_SEQUENCE_", "EXCESSIVE_HEADING_DEPTH_"} :
          \E k \in 1..Len(ret.issues) : Head(ret.issues[k].id) = prefix

SoloResponse(upload) ==
    ProcessUpload(lower(splitext(upload.filename)[2]), upload.file, upload.filename).response

\* C22: however two analyze requests interleave, each one that gets to
\* process its file answers what it would answer alone; while a request
\* awaits its upload its temporary file is there, still empty and its own:
\* no other request has written it, deleted it or been given its name.
C22_RequestsAreIsolated ==
    \A r \in RequestIds :
        /\ RanTryBlock(r) => reqs[r].response = Some(SoloResponse(reqs[r].upload[1]))
        /\ reqs[r].pc = "reading" =>
              /\ reqs[r].tmp_path[1] \in DOMAIN fs
              /\ fs[reqs[r].tmp_path[1]] = EmptyFile
              /\ \A q \in RequestIds \ {r} :
                    reqs[q].pc = "reading" => reqs[q].tmp_path # reqs[r].tmp_path

\* one request has returned the manual's report and deleted its file while
\* the other, for a PDF, still awaits its upload with its own file in place
C22_Witness ==
    \E r, q \in RequestIds :
        /\ Reported(r)
        /\ reqs[r].upload[1].file = ManualDocx
        /\ reqs[r].tmp_path[1] \notin DOMAIN fs
        /\ reqs[q].pc = "reading"
        /\ reqs[q].upload[1].file = ManualPdf
        /\ DOMAIN fs = {reqs[q].tmp_path[1]}

\* ---------------------------------------------------------------- C23
\* C23: the ids of the issues analyze_document returns for a Document are
\* pairwise distinct.
C23_IdsAreDistinct ==
    call \in {"analyze_document", "analyze_document again"} =>
        \A i, j \in 1..Len(ret.issues) :
            i # j => ret.issues[i].id # ret.issues[j].id

\* a list with at least two issues of each per-instance kind has been
\* returned
C23_Witness ==
    /\ call = "analyze_document"
    /\ \A prefix \in {"MISSING_IMAGE_CAPTION_", "BROKEN_HEADING_SEQUENCE_",
                      "EXCESSIVE_HEADING_DEPTH_", "MISSING_SECTION_"} :
          Cardinality({k \in 1..Len(ret.issues) : Head(ret.issues[k].id) = prefix}) >= 2

\* ---------------------------------------------------------------- C24
\* the non-blank paragraphs of a package, which of them are headings, and
\* the level a heading style names: the number after "Heading ", 1 when
\* the style names none
IsNonBlankParagraph(paragraph) == ~IsBlank(paragraph.text)
NonBlankParagraphs(file) == SelectSeq(file.paragraphs, IsNonBlankParagraph)
IsHeadingParagraph(paragraph) ==
    Len(paragraph.style) >= 7 /\ SubSeq(paragraph.style, 1, 7) = <<"H", "e", "a", "d", "i", "n", "g">>

StyleLevel(style) ==
    IF /\ Len(style) > 8
       /\ SubSeq(style, 1, 8) = <<"H", "e", "a", "d", "i", "n", "g", " ">>
       /\ \A k \in 9..Len(style) : StrIn(<<style[k]>>, DigitChars)
    THEN ParseInt(SubSeq(style, 9, Len(style)))
    ELSE 1

\* the newline-join of the stripped texts of paragraphs a+1 .. b-1
RECURSIVE TextsBetween(_, _, _)
TextsBetween(ps, a, b) ==
    IF a + 1 >= b THEN <<>>
    ELSE <<strip(ps[a + 1].text)>> \o TextsBetween(ps, a + 1, b)

\* C24: parse_docx emits its sections in document order: one for each
\* non-blank heading paragraph, with the heading's text as title and its
\* style's level, and before them one "Introduction" section of level 1
\* exactly when the first non-blank paragraph is not a heading; the content
\* of a section is the newline-join of the non-blank paragraphs between its
\* heading and the next heading (or the end), the heading text left out.
C24_SectionsFollowHeadings ==
    (call = "parse_docx" /\ args.file.format = "docx") =>
        LET ps == NonBlankParagraphs(args.file)
            heads == {k \in 1..Len(ps) : IsHeadingParagraph(ps[k])}
            lead == ps # <<>> /\ 1 \notin heads
            off == IF lead THEN 1 ELSE 0
            NextHead(k) == IF \E j \in heads : j > k
                           THEN CHOOSE j \in heads : j > k /\ \A i \in heads : i > k => j <= i
                           ELSE Len(ps) + 1
            sections == ret.value.sections
        IN  /\ ~ret.raised
            /\ Len(sections) = Cardinality(heads) + off
            /\ lead => sections[1] =
                   SectionWithContent(<<"I", "n", "t", "r", "o", "d", "u", "c", "t", "i", "o", "n">>, 1,
                       JoinLines(TextsBetween(ps, 0, NextHead(0))), Some(1))
            /\ \A k \in heads :
                   sections[off + Cardinality({j \in heads : j <= k})] =
                       SectionWithContent(strip(ps[k].text), StyleLevel(ps[k].style),
                           JoinLines(TextsBetween(ps, k, NextHead(k))), Some(1))

\* plain text, a heading, plain text: the leading "Introduction" section
\* and the heading's section, each with one paragraph of content
C24_Witness ==
    /\ call = "parse_docx"
    /\ args.file.format = "docx"
    /\ Len(args.file.paragraphs) = 3
    /\ args.file.paragraphs[2] = Paragraph(<<"H", "e", "a", "d", "i", "n", "g", " ", "2">>, <<"S", "e", "t", "u", "p">>)
    /\ Len(ret.value.sections) = 2
    /\ ret.value.sections[1].title = <<"I", "n", "t", "r", "o", "d", "u", "c", "t", "i", "o", "n">>
    /\ ret.value.sections[1].content = <<"t", "w", "o", " ", " ", "w", "o", "r", "d", "s">>
    /\ ret.value.sections[2].level = 2
    /\ ret.value.sections[2].content = <<"S", "e", "e", " ", "p", "a", "g", "e", " ", "1", "2", ".">>

\* ---------------------------------------------------------------- C25
\* the tokens of the non-blank paragraphs of a list, headings included
RECURSIVE SumTokens(_)
SumTokens(ps) ==
    IF ps = <<>> THEN 0
    ELSE (IF IsBlank(Head(ps).text) THEN 0 ELSE Tokens(Head(ps).text))
         + SumTokens(Tail(ps))

\* C25: parse_docx sets word_count to the number of whitespace-delimited
\* tokens of all non-blank paragraphs, heading paragraphs included, and
\* page_count to max(1, word_count // 500); blank paragraphs, whatever
\* their style, change nothing: the package without them parses to the
\* same sections and the same counts.
C25_WordAndPageCount ==
    (call = "parse_docx" /\ args.file.format = "docx") =>
        LET words == SumTokens(args.file.paragraphs)
            withoutBlanks ==
                parse_docx(DocxFile(NonBlankParagraphs(args.file), args.file.rels),
                           args.file_name)
        IN  /\ ret.value.metadata.word_count = words
            /\ ret.value.metadata.page_count = (IF words >= 1000 THEN words \div 500 ELSE 1)
            /\ ret.value.sections = withoutBlanks.value.sections
            /\ ret.value.metadata = withoutBlanks.value.metadata

\* the manual of a one-word heading and a paragraph of 999 words has been
\* parsed: 1000 words, 2 pages
C25_Witness ==
    /\ call = "parse_docx"
    /\ args.file.format = "docx"
    /\ Len(args.file.paragraphs) = 2
    /\ ret.value.metadata.word_count = 1000
    /\ ret.value.metadata.page_count = 2

\* a blank paragraph with a heading style lies between two plain
\* paragraphs, and the one "Introduction" section holds both
C25_BlankHeadingSkipped ==
    /\ call = "parse_docx"
    /\ args.file.format = "docx"
    /\ Len(args.file.paragraphs) = 3
    /\ args.file.paragraphs[2] = Paragraph(<<"H", "e", "a", "d", "i", "n", "g", " ", "1">>, <<" ", "\t">>)
    /\ Len(ret.value.sections) = 1
    /\ ret.value.sections[1].content = <<"P", "l", "a", "i", "n", " ", "t", "e", "x", "t", " ", "h", "e", "r", "e", "\n", "S", "e", "e", " ", "p", "a", "g", "e", " ", "1", "2", ".">>
    /\ ret.value.metadata.word_count = 6

\* ---------------------------------------------------------------- C26
\* the sections one page gives when it is parsed as a PDF of its own, with
\* the page number k put in place of 1
SectionsOfPageAlone(page, k) ==
    LET alone == parse_pdf(PdfFile(<<page>>), <<>>).value.sections
    IN  [i \in 1..Len(alone) |-> [alone[i] EXCEPT !.page = Some(k)]]

RECURSIVE SectionsPageByPage(_, _)
SectionsPageByPage(pages, k) ==
    IF k > Len(pages) THEN <<>>
    ELSE SectionsOfPageAlone(pages[k], k) \o SectionsPageByPage(pages, k + 1)

\* the first section given to page k, if any
FirstSectionOfPage(sections, k) ==
    LET on == {i \in 1..Len(sections) : sections[i].page = Some(k)}
    IN  IF on = {} THEN None ELSE Some(sections[CHOOSE i \in on : \A j \in on : i <= j])

\* C26: in a Document parse_pdf returns no section spans a page boundary:
\* the sections are, page after page, those each page gives by itself,
\* numbered with that page; every section page lies in 1..page_count and
\* the pages never decrease; a page that starts with content gets an
\* "Introduction" section of level 1 of its own.
C26_SectionsStayOnTheirPage ==
    (call = "parse_pdf" /\ args.file.format = "pdf") =>
        LET sections == ret.value.sections
            pages == args.file.pages
        IN  /\ sections = SectionsPageByPage(pages, 1)
            /\ \A i \in 1..Len(sections) :
                  /\ sections[i].page # None
                  /\ sections[i].page[1] \in 1..ret.value.metadata.page_count
                  /\ i > 1 => sections[i - 1].page[1] <= sections[i].page[1]
            /\ \A k \in 1..Len(pages) :
                  (PageLines(pages[k]) # <<>>
                      /\ ~(is_heading(PageLines(pages[k])[1])
                             /\ Len(PageLines(pages[k])[1]) < 80)) =>
                      LET first == FirstSectionOfPage(sections, k)[1]
                      IN  /\ first.title = <<"I", "n", "t", "r", "o", "d", "u", "c", "t", "i", "o", "n">>
                          /\ first.level = 1
                          /\ first.content[1] = PageLines(pages[k])[1][1]

\* a page ending in an open section is followed by a page of content:
\* the open section is closed on page 1 and page 2 gets an "Introduction"
C26_Witness ==
    /\ call = "parse_pdf"
    /\ args.file.format = "pdf"
    /\ Len(args.file.pages) = 2
    /\ Len(ret.value.sections) = 2
    /\ ret.value.sections[1].title = <<"G", "e", "t", "t", "i", "n", "g", " ", "s", "t", "a", "r", "t", "e", "d">>
    /\ ret.value.sections[1].page = Some(1)
    /\ ret.value.sections[1].content = <<"m", "o", "r", "e", " ", "t", "e", "x", "t", ".">>
    /\ ret.value.sections[2].title = <<"I", "n", "t", "r", "o", "d", "u", "c", "t", "i", "o", "n">>
    /\ ret.value.sections[2].page = Some(2)
    /\ ret.value.sections[2].content = <<"p", "l", "a", "i", "n", " ", "l", "i", "n", "e", " ", "o", "n", "e", ".", "\n", "s", "e", "c", "o", "n", "d", " ", "l", "i", "n", "e", " ", "1", "2", "3">>

\* ---------------------------------------------------------------- C27
\* a page has extractable text when extract_text() gives a non-empty string
HasText(page) == page.text # None /\ page.text # Some(<<>>)

\* the images and the words the pages from k on must contribute
RECURSIVE ImagesFromPage(_, _)
ImagesFromPage(pages, k) ==
    IF k > Len(pages) THEN <<>>
    ELSE (IF HasText(pages[k])
          THEN [i \in 1..pages[k].images |->
                   [caption |-> None, page |-> Some(k), alt_text |-> None]]
          ELSE <<>>)
         \o ImagesFromPage(pages, k + 1)

RECURSIVE SumLineTokens(_)
SumLineTokens(lines) ==
    IF lines = <<>> THEN 0 ELSE Tokens(Head(lines)) + SumLineTokens(Tail(lines))

RECURSIVE WordsFromPage(_, _)
WordsFromPage(pages, k) ==
    IF k > Len(pages) THEN 0
    ELSE SumLineTokens(PageLines(pages[k])) + WordsFromPage(pages, k + 1)

\* C27: in parse_pdf a page without extractable text contributes nothing,
\* no section, no word and no Image even if it reports image objects; a
\* page with extractable text contributes one Image, without caption and
\* alt text and with that page's number, for each image object it reports.
C27_TextlessPagesContributeNothing ==
    (call = "parse_pdf" /\ args.file.format = "pdf") =>
        LET pages == args.file.pages
        IN  /\ ret.value.images = ImagesFromPage(pages, 1)
            /\ ret.value.metadata.word_count = WordsFromPage(pages, 1)
            /\ \A k \in 1..Len(pages) :
                  ~HasText(pages[k]) =>
                      /\ \A i \in 1..Len(ret.value.sections) :
                            ret.value.sections[i].page # Some(k)
                      /\ \A i \in 1..Len(ret.value.images) :
                            ret.value.images[i].page # Some(k)

\* a page without text that reports an image, then a page of blank lines
\* that reports two: the two images of page 2 and nothing else
C27_Witness ==
    /\ call = "parse_pdf"
    /\ args.file.format = "pdf"
    /\ Len(args.file.pages) = 2
    /\ args.file.pages[1] = Page(None, 1)
    /\ args.file.pages[2].images = 2
    /\ ret.value.images = <<Image(None, Some(2), None), Image(None, Some(2), None)>>
    /\ ret.value.sections = <<>>
    /\ ret.value.metadata.word_count = 0

\* ---------------------------------------------------------------- C28
\* fully upper-case: some upper-case letter and no lower-case one
FullyUpper(line) ==
    /\ \E k \in 1..Len(line) : StrIn(<<line[k]>>, UpperChars)
    /\ \A k \in 1..Len(line) : ~StrIn(<<line[k]>>, LowerChars)

StartsUpper(line) == StrIn(<<line[1]>>, UpperChars)
EndsWithPeriod(line) == line[Len(line)] = "."
DigitAmongLastThree(line) ==
    \E k \in 1..Len(line) : k > Len(line) - 3 /\ StrIn(<<line[k]>>, DigitChars)

\* the lines the statement calls headings, and the level it gives them
TreatedAsHeading(line) ==
    /\ Len(line) < 80
    /\ \/ FullyUpper(line)
       \/ StartsUpper(line) /\ ~EndsWithPeriod(line) /\ ~DigitAmongLastThree(line)

LevelOfHeading(line) ==
    IF FullyUpper(line) /\ Len(line) < 50 THEN 1
    ELSE IF StartsUpper(line) /\ ~EndsWithPeriod(line) THEN 2
    ELSE 3

\* C28: in parse_pdf a non-blank line becomes a heading exactly when it is
\* shorter than 80 characters and either fully upper-case, or starting
\* with an upper-case character, not ending with a period and without a
\* digit among its last 3 characters; the heading's level is 1 when it is
\* fully upper-case and shorter than 50 characters, else 2 when it starts
\* with an upper-case character and does not end with a period, else 3.
\* On each page the sections are the headings in order, after an
\* "Introduction" when the page starts with another line; every level is
\* 1, 2 or 3.
C28_HeadingHeuristic ==
    (call = "parse_pdf" /\ args.file.format = "pdf") =>
        /\ \A i \in 1..Len(ret.value.sections) : ret.value.sections[i].level \in {1, 2, 3}
        /\ \A k \in 1..Len(args.file.pages) :
              LET lines == PageLines(args.file.pages[k])
                  heads == {j \in 1..Len(lines) : TreatedAsHeading(lines[j])}
                  off == IF lines # <<>> /\ 1 \notin heads THEN 1 ELSE 0
                  OnPage(section) == section.page = Some(k)
                  sections == SelectSeq(ret.value.sections, OnPage)
              IN  /\ Len(sections) = Cardinality(heads) + off
                  /\ \A j \in heads :
                        LET section == sections[off + Cardinality({h \in heads : h <= j})]
                        IN  /\ section.title = lines[j]
                            /\ section.level = LevelOfHeading(lines[j])

\* an upper-case line of 60 characters that starts with a digit has been
\* taken as a heading of level 3
C28_Witness ==
    /\ call = "parse_pdf"
    /\ args.file.format = "pdf"
    /\ Len(args.file.pages) = 1
    /\ Len(ret.value.sections) = 1
    /\ Len(ret.value.sections[1].title) = 60
    /\ ret.value.sections[1].title[1] = "2"
    /\ ret.value.sections[1].level = 3
    /\ ret.value.sections[1].content = <<>>

\* ---------------------------------------------------------------- C29
\* C29: every Section a parser emits has level >= 1, whatever heading
\* style names and lines the parsers accept, so the heading-levels list of
\* a parsed Document is as long as its sections list.
C29_LevelAtLeastOne ==
    (call \in {"parse_docx", "parse_pdf"} /\ ~ret.raised) =>
        /\ \A i \in 1..Len(ret.value.sections) : ret.value.sections[i].level >= 1
        /\ Len(get_heading_levels(ret.value)) = Len(ret.value.sections)

\* a paragraph of style "Heading 0" has become a section of level 0, which
\* the heading-levels list leaves out
C29_HeadingZeroEmitted ==
    /\ call = "parse_docx"
    /\ ~ret.raised
    /\ args.file.paragraphs = <<Paragraph(<<"H", "e", "a", "d", "i", "n", "g", " ", "0">>, <<"P", "r", "e", "f", "a", "c", "e">>),
                                Paragraph(<<"H", "e", "a", "d", "i", "n", "g", " ", "2">>, <<"S", "e", "t", "u", "p">>)>>
    /\ ret.value.sections[1].title = <<"P", "r", "e", "f", "a", "c", "e">>
    /\ ret.value.sections[1].level = 0
    /\ get_heading_levels(ret.value) = <<2>>

\* the PDF parser by itself keeps the levels at 1 or more
C29_PdfLevelAtLeastOne ==
    (call = "parse_pdf" /\ ~ret.raised) =>
        /\ \A i \in 1..Len(ret.value.sections) : ret.value.sections[i].level >= 1
        /\ Len(get_heading_levels(ret.value)) = Len(ret.value.sections)

\* ---------------------------------------------------------------- C30
\* the issues of the two heading rules in what a call returned, and the
\* index each one reports in its id
HeadingIssues ==
    LET issues == IF call = "analyze_document" THEN ret.issues ELSE ret
    IN  SelectSeq(issues, LAMBDA issue :
            Head(issue.id) \in {"BROKEN_HEADING_SEQUENCE_", "EXCESSIVE_HEADING_DEPTH_"})

ReportedIndex(issue) == ParseInt(Tail(issue.id))

HeadingRuleCalled ==
    call \in {"check_heading_sequence", "check_excessive_depth", "analyze_document"}

\* the statement as it was made: the page is that of the section whose
\* heading level triggered the issue, the heading the index counts
C30_Original ==
    HeadingRuleCalled =>
        \A k \in 1..Len(HeadingIssues) :
            HeadingIssues[k].page =
                SelectSeq(doc.sections, IsHeading)[ReportedIndex(HeadingIssues[k]) + 1].page

\* C30: the page attached to a BROKEN_HEADING_SEQUENCE_<idx> or
\* EXCESSIVE_HEADING_DEPTH_<idx> issue is the page of the section at
\* position idx (from 0) of the full sections list, where idx counts the
\* headings only; it is the page of the section whose level triggered the
\* issue when no section before that one has level <= 0.
C30_PageOfSectionAtIndex ==
    HeadingRuleCalled =>
        \A k \in 1..Len(HeadingIssues) :
            LET idx == ReportedIndex(HeadingIssues[k])
                headingAt == {i \in 1..Len(doc.sections) :
                                 /\ doc.sections[i].level > 0
                                 /\ Cardinality({j \in 1..i : doc.sections[j].level > 0}) = idx + 1}
            IN  /\ idx < Len(doc.sections)
                /\ HeadingIssues[k].page = doc.sections[idx + 1].page
                /\ \A i \in headingAt :
                       (\A j \in 1..i : doc.sections[j].level > 0) =>
                           HeadingIssues[k].page = doc.sections[i].page

\* levels [0, 1, 3] on pages 1, 2, 3: the skip to level 3 is reported with
\* index 1 and page 2, the page of the level-1 section
C30_Witness ==
    /\ call = "check_heading_sequence"
    /\ Len(doc.sections) = 3
    /\ doc.sections[1].level = 0
    /\ doc.sections[2].level = 1
    /\ doc.sections[3].level = 3 /\ doc.sections[3].page = Some(3)
    /\ Len(ret) = 1
    /\ ret[1].id = <<"BROKEN_HEADING_SEQUENCE_", "1">>
    /\ ret[1].page = Some(2)
====
